---- MODULE Spec2Model ----
(***************************************************************************)
(* A model of tools/fiwalk/python/dfxml.py: the extent database (extentdb),*)
(* the expat-driven readers (fileobject_reader, regxml_reader) and the     *)
(* time values (dftime).                                                   *)
(***************************************************************************)
EXTENDS Integers, Sequences, FiniteSets, TLC

VARIABLES
    db,          \* extentdb.db: the list of stored byte runs, in insertion order
    pre,         \* extentdb.db as it was when the last method was called
    sectorsize,  \* extentdb.sectorsize
    op,          \* name of the extentdb method called last
    arg,         \* its argument: a sequence of extents (of sector numbers for add_sectors)
    ret,         \* what the call returned (an intersects result)
    err,         \* the exception the call raised, if any
    reader,      \* the fileobject_reader
    raised,      \* the exception that ended the parse, "" while it goes on
    nobjects,    \* number of volume and file objects created so far
    nevents,     \* number of stream events handled so far
    event,       \* the stream event handled last
    callbacks,   \* the callback invocations so far: argument and event number
    closes,      \* the event numbers of the fileobject close events so far
    parsing,     \* the reader process_xml_stream runs on: "dfxml", "regxml", "" before
    regxml,      \* the regxml_reader
    opened,      \* the elements expat has open in a registry stream, innermost last
    issued,      \* the placeholder names the regxml_reader made up so far
    inside,      \* the attributes of the run elements opened so far inside each
                 \* open fileobject element, and inside the one closed last
    threads,     \* for each caller that shares the extentdb: where it is in add
                 \* ("idle", or "checked" between the check and the append)
                 \* and the extent it is adding
    interleaved, \* a caller has taken a step while another was inside add
    context      \* the volume elements of the stream: the numbers of the open
                 \* ones, innermost last, and for each fileobject element the
                 \* volume element that was open when it opened (0 for none)

thvars == <<threads, interleaved>>

dbvars == <<db, pre, sectorsize, op, arg, ret, err, threads, interleaved>>

regvars == <<regxml, opened, issued>>

rdvars == <<reader, raised, nobjects, nevents, event, callbacks, closes,
            parsing, regxml, opened, issued, inside, context>>

othervars == <<rdvars, thvars>>

vars == <<db, pre, sectorsize, op, arg, ret, err, threads, interleaved,
          reader, raised, nobjects, nevents, event, callbacks, closes,
          parsing, regxml, opened, issued, inside, context>>

----------------------------------------------------------------------------
(* Bounds of the exploration *)

MaxDb == 3
MaxRuns == 2
MaxEvents == 8
MaxCombine == 3

(* Inputs the operations are called with *)
Callers == {1, 2}
SectorSizes == {512, 4096}
ByteCounts == {0, 1, 512, 513, 4096}
Offsets == {0, 90, 100}
Lens == {-1, 0, 20, 50, 100}
Sectors == {0, 1}

(* The major versions of Python the module runs under *)
PythonMajors == {2, 3}

(* The documents the reader is run on: the elements that may open inside   *)
(* an element, the attributes they carry and the character data            *)
Children(parent) ==
    CASE parent = "xml" -> {"volume", "fileobject", "byte_run", "run"}
      [] parent = "volume" -> {"fileobject", "block_size", "byte_run"}
      [] parent = "fileobject" -> {"byte_runs", "run", "byte_run", "hashdigest",
                                   "mtime", "fileobject", "block_size"}
      [] parent = "byte_runs" -> {"run", "byte_run", "hashdigest"}
      [] parent \in {"run", "byte_run"} -> {"hashdigest"}
      [] OTHER -> {}

RunAttrs ==
    {[k \in {"img_offset", "len"} |->
         IF k = "img_offset" THEN <<"0">> ELSE <<"5", "1", "2">>],
     [k \in {"img_offset", "bytes"} |->
         IF k = "img_offset" THEN <<"5", "1", "2">> ELSE <<"5", "1", "2">>],
     [k \in {"file_offset", "len"} |->
         IF k = "file_offset" THEN <<"0">> ELSE <<"5", "x">>],
     [k \in {"img_offset", "len"} |-> <<"5", "1", "2">>]}

VolumeAttrs ==
    {[k \in {} |-> <<>>],
     [k \in {"offset"} |-> <<"6", "3">>],
     [k \in {"offset"} |-> <<"x">>]}

HashAttrs == {[k \in {"type"} |-> "MD5"], [k \in {"type"} |-> "sha1"]}

AttrsOf(name) ==
    CASE name \in {"run", "byte_run"} -> RunAttrs
      [] name = "volume" -> VolumeAttrs
      [] name = "hashdigest" -> HashAttrs
      [] OTHER -> {[k \in {} |-> <<>>]}

CharChunks == {<<"a">>, <<"4">>}

(* The registry documents: the elements that may open inside an element,   *)
(* the attributes they carry and the character data                        *)
RegChildren(parent) ==
    CASE parent = "xml" -> {"hive", "key"}
      [] parent = "hive" -> {"key", "hive"}
      [] parent = "key" -> {"key", "value", "mtime", "byte_run"}
      [] parent = "value" -> {"string"}
      [] OTHER -> {}

KeyAttrs ==
    {[k \in {} |-> ""],
     [k \in {"root"} |-> "1"],
     [k \in {"name"} |-> "A"],
     [k \in {"name", "root"} |-> IF k = "name" THEN "A" ELSE "1"],
     [k \in {"name", "name_encoding"} |-> IF k = "name" THEN "QQ==" ELSE "base64"]}

ValueAttrs ==
    {[k \in {} |-> ""],
     [k \in {"name"} |-> "A"],
     [k \in {"default", "type"} |-> IF k = "default" THEN "1" ELSE "string-list"]}

RegRunAttrs ==
    {[k \in {"file_offset", "len"} |-> IF k = "file_offset" THEN <<"0">> ELSE <<"4">>]}

RegAttrsOf(name) ==
    CASE name = "key" -> KeyAttrs
      [] name = "value" -> ValueAttrs
      [] name = "byte_run" -> RegRunAttrs
      [] OTHER -> {[k \in {} |-> ""]}

RegCharChunks == {<<"4">>, <<"x">>}

(* The elements a stray close tag may name *)
CloseNames == {"fileobject", "key"}

----------------------------------------------------------------------------
(* byte_run(img_offset, len) as the extent database sees it *)
byte_run(img_offset, len) == [img_offset |-> img_offset, len |-> len]

Extents == {byte_run(o, l) : o \in Offsets, l \in Lens}
RunExtents == {byte_run(0, 100), byte_run(100, 50), byte_run(90, 20),
               byte_run(90, 0), byte_run(100, -1)}

SeqsUpTo(S, n) == UNION {[1..k -> S] : k \in 0..n}

(* The lists of runs intersects_runs is called with, the runs              *)
(* sectors_for_run is called with and the lists of sectors                 *)
(* runs_for_sectors is called with                                         *)
QueryRuns == {<<>>, <<byte_run(0, 100), byte_run(100, 50)>>,
              <<byte_run(100, 50), byte_run(100, -1)>>}
QuerySectorRuns == {byte_run(0, 1024), byte_run(100, 512)}
QuerySectors == {<<0, 1>>, <<1>>}

(* The runs the sector methods are called with: aligned to sectors or not *)
SectorRuns == {byte_run(o, l) : o \in {0, 100, 512}, l \in {1, 100, 512, 513, 1024}}
DbSectorRuns == {byte_run(0, 512), byte_run(0, 1024), byte_run(512, 1024),
                 byte_run(100, 512), byte_run(512, 100)}

(* The runs combine_runs is called with *)
CombineExtents == {byte_run(0, 100), byte_run(100, 50), byte_run(150, 50),
                   byte_run(90, 20)}

(* The values intersects() can produce: None, True, a stored extent, or a  *)
(* raised ValueError.  d holds the extent when there is one.               *)
RNone == [tag |-> "None", d |-> <<>>]
RTrue == [tag |-> "True", d |-> <<>>]
RExtent(d) == [tag |-> "Extent", d |-> <<d>>]
RRaise == [tag |-> "Raise", d |-> <<>>]

(* A list of sector numbers and a list of runs as results *)
RSectors(s) == [tag |-> "Sectors", d |-> s]
RRuns(runs) == [tag |-> "Runs", d |-> runs]

(* Python truth value of an intersects() result *)
Truthy(v) == v.tag \in {"True", "Extent"}

(* The exceptions of the extent database, told apart by their message *)
NoError == [kind |-> "none", v |-> RNone, k |-> 0]
InvalidExtent(k) == [kind |-> "invalid", v |-> RNone, k |-> k]
CollisionError(v, k) == [kind |-> "collision", v |-> v, k |-> k]
TypeError == [kind |-> "type", v |-> RNone, k |-> 0]

----------------------------------------------------------------------------
(* Mutant: the scan without the test for a candidate enclosing d *)
RECURSIVE IntersectsFrom_NoEnclosure(_, _, _, _)
IntersectsFrom_NoEnclosure(dbs, i, start, stop) ==
    IF i > Len(dbs) THEN RNone
    ELSE LET d == dbs[i] IN
         IF d.img_offset <= start /\ start < d.img_offset + d.len THEN RExtent(d)
         ELSE IF d.img_offset < stop /\ stop < d.img_offset + d.len THEN RExtent(d)
         ELSE IntersectsFrom_NoEnclosure(dbs, i + 1, start, stop)

(* Mutant: the scan with a candidate that starts at d's start not counted *)
RECURSIVE IntersectsFrom_StrictStart(_, _, _, _)
IntersectsFrom_StrictStart(dbs, i, start, stop) ==
    IF i > Len(dbs) THEN RNone
    ELSE LET d == dbs[i] IN
         IF d.img_offset < start /\ start < d.img_offset + d.len THEN RExtent(d)
         ELSE IF d.img_offset < stop /\ stop < d.img_offset + d.len THEN RExtent(d)
         ELSE IF start < d.img_offset /\ d.img_offset + d.len <= stop THEN RExtent(d)
         ELSE IntersectsFrom_StrictStart(dbs, i + 1, start, stop)

(* Mutant: the scan with a candidate that ends at d's start counted *)
RECURSIVE IntersectsFrom_TouchingCounts(_, _, _, _)
IntersectsFrom_TouchingCounts(dbs, i, start, stop) ==
    IF i > Len(dbs) THEN RNone
    ELSE LET d == dbs[i] IN
         IF d.img_offset <= start /\ start < d.img_offset + d.len THEN RExtent(d)
         ELSE IF d.img_offset <= stop /\ stop < d.img_offset + d.len THEN RExtent(d)
         ELSE IF start < d.img_offset /\ d.img_offset + d.len <= stop THEN RExtent(d)
         ELSE IntersectsFrom_TouchingCounts(dbs, i + 1, start, stop)

(* extentdb.intersects: the scan of self.db from position i on *)
RECURSIVE IntersectsFrom(_, _, _, _)
IntersectsFrom(dbs, i, start, stop) ==
    IF i > Len(dbs) THEN RNone
    ELSE LET d == dbs[i] IN
         IF d.img_offset <= start /\ start < d.img_offset + d.len THEN RExtent(d)
         ELSE IF d.img_offset < stop /\ stop < d.img_offset + d.len THEN RExtent(d)
         ELSE IF start < d.img_offset /\ d.img_offset + d.len <= stop THEN RExtent(d)
         ELSE IntersectsFrom(dbs, i + 1, start, stop)

(* Mutant: a zero-length candidate intersects nothing *)
intersects_ZeroIsNone(dbs, extent) ==
    IF extent.len = 0 THEN RNone
    ELSE IF extent.len < 0 THEN RRaise
    ELSE IntersectsFrom(dbs, 1, extent.img_offset, extent.img_offset + extent.len)

intersects(dbs, extent) ==
    IF extent.len = 0 THEN RTrue
    ELSE IF extent.len < 0 THEN RRaise
    ELSE IntersectsFrom(dbs, 1, extent.img_offset, extent.img_offset + extent.len)

(* Mutant: the check of add finds no collision *)
add_check_NoCollision(dbs, extent, k) ==
    LET v == intersects(dbs, extent) IN
    IF v.tag = "Raise" THEN InvalidExtent(k) ELSE NoError

(* extentdb.add up to the append: the exception it raises, NoError if it   *)
(* goes on to append                                                       *)
add_check(dbs, extent, k) ==
    LET v == intersects(dbs, extent) IN
    IF v.tag = "Raise" THEN InvalidExtent(k)
    ELSE IF Truthy(v) THEN CollisionError(v, k)
    ELSE NoError

(* Mutant: add stores the extent before it raises the collision *)
add_StoresBeforeCheck(dbs, extent, k) ==
    LET v == intersects(dbs, extent) IN
    IF v.tag = "Raise" THEN [db |-> dbs, err |-> InvalidExtent(k)]
    ELSE IF Truthy(v) THEN [db |-> Append(dbs, extent), err |-> CollisionError(v, k)]
    ELSE [db |-> Append(dbs, extent), err |-> NoError]

(* Mutant: add joins the extent to the last stored one when they touch *)
add_MergesAdjacent(dbs, extent, k) ==
    LET v == intersects(dbs, extent) IN
    IF v.tag = "Raise" THEN [db |-> dbs, err |-> InvalidExtent(k)]
    ELSE IF Truthy(v) THEN [db |-> dbs, err |-> CollisionError(v, k)]
    ELSE IF dbs # <<>>
            /\ dbs[Len(dbs)].img_offset + dbs[Len(dbs)].len = extent.img_offset
    THEN [db |-> [dbs EXCEPT ![Len(dbs)].len = @ + extent.len], err |-> NoError]
    ELSE [db |-> Append(dbs, extent), err |-> NoError]

(* extentdb.add: the database and the exception after add(extent); k is    *)
(* the position of the extent in the enclosing add_runs call (0 if none)   *)
add(dbs, extent, k) ==
    LET v == intersects(dbs, extent) IN
    IF v.tag = "Raise" THEN [db |-> dbs, err |-> InvalidExtent(k)]
    ELSE IF Truthy(v) THEN [db |-> dbs, err |-> CollisionError(v, k)]
    ELSE [db |-> Append(dbs, extent), err |-> NoError]

(* extentdb.add_runs: add() on each run in order; the first exception      *)
(* leaves the loop                                                         *)
RECURSIVE AddRunsFrom(_, _, _)
AddRunsFrom(dbs, runs, i) ==
    IF i > Len(runs) THEN [db |-> dbs, err |-> NoError]
    ELSE LET r == add(dbs, runs[i], i) IN
         IF r.err.kind # "none" THEN r
         ELSE AddRunsFrom(r.db, runs, i + 1)

(* Mutant: add_runs undoes the adds it made when a later one fails *)
add_runs_Rollback(dbs, runs) ==
    LET r == AddRunsFrom(dbs, runs, 1) IN
    IF r.err.kind # "none" THEN [db |-> dbs, err |-> r.err] ELSE r

add_runs(dbs, runs) == AddRunsFrom(dbs, runs, 1)

(* Mutant: a run that follows a merge is appended without the test *)
RECURSIVE CombinePairsFrom(_, _, _, _)
CombinePairsFrom(acc, runs, i, merged) ==
    IF i > Len(runs) THEN acc
    ELSE LET last == acc[Len(acc)]
             run == runs[i] IN
         IF ~merged /\ last.img_offset + last.len = run.img_offset
         THEN CombinePairsFrom([acc EXCEPT ![Len(acc)] =
                                   byte_run(last.img_offset, last.len + run.len)],
                               runs, i + 1, TRUE)
         ELSE CombinePairsFrom(Append(acc, run), runs, i + 1, FALSE)

combine_runs_MergesPairs(runs) ==
    IF runs = <<>> THEN <<>> ELSE CombinePairsFrom(<<runs[1]>>, runs, 2, FALSE)

(* Mutant: a run that starts at or before the end of the last one is       *)
(* merged into it                                                          *)
RECURSIVE CombineOverlapFrom(_, _, _)
CombineOverlapFrom(acc, runs, i) ==
    IF i > Len(runs) THEN acc
    ELSE LET last == acc[Len(acc)]
             run == runs[i] IN
         IF last.img_offset + last.len >= run.img_offset
         THEN CombineOverlapFrom([acc EXCEPT ![Len(acc)] =
                                     byte_run(last.img_offset, last.len + run.len)],
                                 runs, i + 1)
         ELSE CombineOverlapFrom(Append(acc, run), runs, i + 1)

combine_runs_MergesOverlap(runs) ==
    IF runs = <<>> THEN <<>> ELSE CombineOverlapFrom(<<runs[1]>>, runs, 2)

(* combine_runs *)
RECURSIVE CombineFrom(_, _, _)
CombineFrom(acc, runs, i) ==
    IF i > Len(runs) THEN acc
    ELSE LET last == acc[Len(acc)]
             run == runs[i] IN
         IF last.img_offset + last.len = run.img_offset
         THEN CombineFrom([acc EXCEPT ![Len(acc)] =
                              byte_run(last.img_offset, last.len + run.len)],
                          runs, i + 1)
         ELSE CombineFrom(Append(acc, run), runs, i + 1)

combine_runs(runs) ==
    IF runs = <<>> THEN <<>> ELSE CombineFrom(<<runs[1]>>, runs, 2)

(* extentdb.__init__(sectorsize): the new database.  The sector size it    *)
(* stores is the literal 512, not the argument.                            *)
extentdb(given) == [db |-> <<>>, sectorsize |-> 512]

(* extentdb.runs_for_sectors *)
runs_for_sectors(ss, sectors) ==
    combine_runs([i \in 1..Len(sectors) |-> byte_run(sectors[i] * ss, ss)])

(* extentdb.add_sectors *)
add_sectors(dbs, ss, sectors) == add_runs(dbs, runs_for_sectors(ss, sectors))

(* extentdb.sectors_for_bytes *)
sectors_for_bytes(ss, count) == (count + ss - 1) \div ss

(* range(start, stop) *)
range(start, stop) ==
    IF stop <= start THEN <<>> ELSE [i \in 1..(stop - start) |-> start + i - 1]

(* extentdb.sectors_for_run.  start_sector is img_offset/sectorsize: the   *)
(* floor of the quotient under Python 2, a float under Python 3, which     *)
(* range() refuses with TypeError.  ok tells whether the call returned.    *)
sectors_for_run(ss, run, py) ==
    IF py = 3 THEN [ok |-> FALSE, sectors |-> <<>>]
    ELSE LET start_sector == run.img_offset \div ss
             sector_count == sectors_for_bytes(ss, run.len) IN
         [ok |-> TRUE, sectors |-> range(start_sector, start_sector + sector_count)]

(* extentdb.run_for_sector *)
run_for_sector(ss, sector_number, count) == byte_run(sector_number * ss, count * ss)

(* extentdb.intersects_sector *)
intersects_sector(dbs, ss, sector) == intersects(dbs, run_for_sector(ss, sector, 1))

(* Mutant: the filter keeps every sector *)
NotIntersecting_KeepsAll(dbs, ss, sectors) == sectors

(* extentdb.intersects_runs: the first truthy intersects() of the runs in  *)
(* order, None if there is none; an exception of intersects leaves it      *)
RECURSIVE IntersectsRunsFrom(_, _, _)
IntersectsRunsFrom(dbs, runs, i) ==
    IF i > Len(runs) THEN RNone
    ELSE LET v == intersects(dbs, runs[i]) IN
         IF v.tag = "Raise" \/ Truthy(v) THEN v
         ELSE IntersectsRunsFrom(dbs, runs, i + 1)

intersects_runs(dbs, runs) == IntersectsRunsFrom(dbs, runs, 1)

(* filter(lambda x: not self.intersects_sector(x), sectors) *)
RECURSIVE NotIntersecting(_, _, _)
NotIntersecting(dbs, ss, sectors) ==
    IF sectors = <<>> THEN <<>>
    ELSE IF Truthy(intersects_sector(dbs, ss, Head(sectors)))
    THEN NotIntersecting(dbs, ss, Tail(sectors))
    ELSE <<Head(sectors)>> \o NotIntersecting(dbs, ss, Tail(sectors))

(* extentdb.sectors_not_in_db *)
sectors_not_in_db(dbs, ss, run, py) ==
    LET s == sectors_for_run(ss, run, py) IN
    IF s.ok THEN [ok |-> TRUE, sectors |-> NotIntersecting(dbs, ss, s.sectors)]
    ELSE s

----------------------------------------------------------------------------
(* A call of extentdb.add *)
Add ==
    \E e \in Extents :
        /\ LET r == add(db, e, 0) IN
           /\ Len(r.db) <= MaxDb
           /\ db' = r.db
           /\ pre' = db
           /\ err' = r.err
        /\ op' = "add"
        /\ arg' = <<e>>
        /\ ret' = RNone
        /\ UNCHANGED sectorsize
        /\ UNCHANGED othervars

(* A call of extentdb.add_runs *)
AddRuns ==
    \E runs \in SeqsUpTo(RunExtents, MaxRuns) :
        /\ LET r == add_runs(db, runs) IN
           /\ Len(r.db) <= MaxDb
           /\ db' = r.db
           /\ pre' = db
           /\ err' = r.err
        /\ op' = "add_runs"
        /\ arg' = runs
        /\ ret' = RNone
        /\ UNCHANGED sectorsize
        /\ UNCHANGED othervars

(* A call of extentdb.add_sectors *)
AddSectors ==
    \E sectors \in SeqsUpTo(Sectors, MaxRuns) :
        /\ LET r == add_sectors(db, sectorsize, sectors) IN
           /\ Len(r.db) <= MaxDb
           /\ db' = r.db
           /\ pre' = db
           /\ err' = r.err
        /\ op' = "add_sectors"
        /\ arg' = sectors
        /\ ret' = RNone
        /\ UNCHANGED sectorsize
        /\ UNCHANGED othervars

(* Mutant: intersects stores the extent it is asked about *)
Intersects_StoresCandidate ==
    \E e \in Extents :
        /\ LET v == intersects(db, e) IN
           /\ ret' = (IF v.tag = "Raise" THEN RNone ELSE v)
           /\ err' = (IF v.tag = "Raise" THEN InvalidExtent(0) ELSE NoError)
        /\ Len(db) < MaxDb
        /\ db' = Append(db, e)
        /\ op' = "intersects"
        /\ arg' = <<e>>
        /\ pre' = db
        /\ UNCHANGED sectorsize
        /\ UNCHANGED othervars

(* A call of extentdb.intersects *)
Intersects ==
    \E e \in Extents :
        /\ LET v == intersects(db, e) IN
           /\ ret' = (IF v.tag = "Raise" THEN RNone ELSE v)
           /\ err' = (IF v.tag = "Raise" THEN InvalidExtent(0) ELSE NoError)
        /\ op' = "intersects"
        /\ arg' = <<e>>
        /\ pre' = db
        /\ UNCHANGED <<db, sectorsize>>
        /\ UNCHANGED othervars

(* A call of extentdb.sectors_not_in_db *)
SectorsNotInDb ==
    \E run \in DbSectorRuns, py \in PythonMajors :
        /\ LET r == sectors_not_in_db(db, sectorsize, run, py) IN
           /\ ret' = (IF r.ok THEN RSectors(r.sectors) ELSE RNone)
           /\ err' = (IF r.ok THEN NoError ELSE TypeError)
        /\ op' = "sectors_not_in_db"
        /\ arg' = <<run>>
        /\ pre' = db
        /\ UNCHANGED <<db, sectorsize>>
        /\ UNCHANGED othervars

(* A call of one of the other queries of the extentdb: intersects_runs,    *)
(* intersects_sector, sectors_for_run, run_for_sector, runs_for_sectors    *)
Query ==
    /\ \/ \E runs \in QueryRuns :
              LET v == intersects_runs(db, runs) IN
              /\ op' = "intersects_runs"
              /\ arg' = runs
              /\ ret' = (IF v.tag = "Raise" THEN RNone ELSE v)
              /\ err' = (IF v.tag = "Raise" THEN InvalidExtent(0) ELSE NoError)
       \/ \E sector \in Sectors :
              /\ op' = "intersects_sector"
              /\ arg' = <<sector>>
              /\ ret' = intersects_sector(db, sectorsize, sector)
              /\ err' = NoError
       \/ \E run \in QuerySectorRuns, py \in PythonMajors :
              LET r == sectors_for_run(sectorsize, run, py) IN
              /\ op' = "sectors_for_run"
              /\ arg' = <<run>>
              /\ ret' = (IF r.ok THEN RSectors(r.sectors) ELSE RNone)
              /\ err' = (IF r.ok THEN NoError ELSE TypeError)
       \/ \E sector \in Sectors :
              /\ op' = "run_for_sector"
              /\ arg' = <<sector>>
              /\ ret' = RExtent(run_for_sector(sectorsize, sector, 1))
              /\ err' = NoError
       \/ \E sectors \in QuerySectors :
              /\ op' = "runs_for_sectors"
              /\ arg' = sectors
              /\ ret' = RRuns(runs_for_sectors(sectorsize, sectors))
              /\ err' = NoError
    /\ pre' = db
    /\ UNCHANGED <<db, sectorsize>>
    /\ UNCHANGED othervars

NextDb == Add \/ AddRuns \/ AddSectors \/ Intersects \/ SectorsNotInDb \/ Query

(* A call of extentdb.sectors_for_run *)
SectorsForRun ==
    \E run \in SectorRuns, py \in PythonMajors :
        /\ LET r == sectors_for_run(sectorsize, run, py) IN
           /\ ret' = (IF r.ok THEN RSectors(r.sectors) ELSE RNone)
           /\ err' = (IF r.ok THEN NoError ELSE TypeError)
        /\ op' = "sectors_for_run"
        /\ arg' = <<run>>
        /\ pre' = db
        /\ UNCHANGED <<db, sectorsize>>
        /\ UNCHANGED othervars

(* A call of combine_runs *)
CombineRuns ==
    \E runs \in SeqsUpTo(CombineExtents, MaxCombine) :
        /\ ret' = RRuns(combine_runs(runs))
        /\ err' = NoError
        /\ op' = "combine_runs"
        /\ arg' = runs
        /\ pre' = db
        /\ UNCHANGED <<db, sectorsize>>
        /\ UNCHANGED othervars


----------------------------------------------------------------------------
(* Python values as the reader handles them: None, an int, or a str (a     *)
(* sequence of characters)                                                 *)
PyNone == [t |-> "None", i |-> 0, s |-> <<>>]
PyInt(n) == [t |-> "int", i |-> n, s |-> <<>>]
PyStr(s) == [t |-> "str", i |-> 0, s |-> s]

(* A dict, and d[k] = v on it *)
EmptyDict == [k \in {} |-> PyNone]
Put(d, k, v) == [x \in (DOMAIN d) \cup {k} |-> IF x = k THEN v ELSE d[x]]

(* int(str): surrounding blanks are dropped, then an optional sign and one *)
(* or more decimal digits; anything else raises ValueError                 *)
Digits == <<"0", "1", "2", "3", "4", "5", "6", "7", "8", "9">>
IsDigit(c) == \E k \in 1..10 : Digits[k] = c
DigitValue(c) == (CHOOSE k \in 1..10 : Digits[k] = c) - 1

RECURSIVE Strip(_)
Strip(s) ==
    IF s = <<>> THEN s
    ELSE IF Head(s) = " " THEN Strip(Tail(s))
    ELSE IF s[Len(s)] = " " THEN Strip(SubSeq(s, 1, Len(s) - 1))
    ELSE s

RECURSIVE DigitsValue(_)
DigitsValue(s) ==
    IF s = <<>> THEN 0
    ELSE 10 * DigitsValue(SubSeq(s, 1, Len(s) - 1)) + DigitValue(s[Len(s)])

Unsigned(s) == IF s # <<>> /\ Head(s) \in {"-", "+"} THEN Tail(s) ELSE s

IsIntLiteral(s) ==
    LET u == Unsigned(Strip(s)) IN
    u # <<>> /\ \A k \in 1..Len(u) : IsDigit(u[k])

int(s) ==
    LET t == Strip(s) IN
    IF Head(t) = "-" THEN 0 - DigitsValue(Tail(t)) ELSE DigitsValue(Unsigned(t))

(* str.lower() on the names of hash algorithms *)
lower(s) ==
    CASE s = "MD5" -> "md5"
      [] s = "SHA1" -> "sha1"
      [] OTHER -> s

(* The characters of the texts of Times, in the order of their code points *)
CodePoints == <<" ", "+", "-", ".", "0", "1", "2", "3", "4", "5", "6", "7", "8", "9",
                ":", "T", "Z">>
ord(c) == CHOOSE k \in 1..Len(CodePoints) : CodePoints[k] = c

(* str.__le__ and str.__gt__: the order of the first character that        *)
(* differs, a proper prefix coming first                                   *)
RECURSIVE str_lt(_, _)
str_lt(s, t) ==
    IF t = <<>> THEN FALSE
    ELSE IF s = <<>> THEN TRUE
    ELSE IF Head(s) # Head(t) THEN ord(Head(s)) < ord(Head(t))
    ELSE str_lt(Tail(s), Tail(t))

str_le(s, t) == s = t \/ str_lt(s, t)
str_gt(s, t) == str_lt(t, s)

(* s.find(c): the position of the first c in s counted from 0, -1 if none *)
find(s, c) ==
    IF \E k \in 1..Len(s) : s[k] = c
    THEN (CHOOSE k \in 1..Len(s) : s[k] = c /\ \A j \in 1..(k - 1) : s[j] # c) - 1
    ELSE 0 - 1

(* Days between 1970-01-01 and a day of the Gregorian calendar, and back *)
days_from_civil(y0, m, d) ==
    LET y == IF m <= 2 THEN y0 - 1 ELSE y0
        era == y \div 400
        yoe == y - era * 400
        doy == (153 * (IF m > 2 THEN m - 3 ELSE m + 9) + 2) \div 5 + d - 1
        doe == yoe * 365 + yoe \div 4 - yoe \div 100 + doy IN
    era * 146097 + doe - 719468

civil_from_days(days) ==
    LET z == days + 719468
        era == z \div 146097
        doe == z - era * 146097
        yoe == (doe - doe \div 1460 + doe \div 36524 - doe \div 146096) \div 365
        doy == doe - (365 * yoe + yoe \div 4 - yoe \div 100)
        mp == (5 * doy + 2) \div 153
        d == doy - (153 * mp + 2) \div 5 + 1
        mo == IF mp < 10 THEN mp + 3 ELSE mp - 9 IN
    [year |-> yoe + era * 400 + (IF mo <= 2 THEN 1 ELSE 0), month |-> mo, day |-> d]

(* n in decimal, at least w characters wide, padded with zeros *)
RECURSIVE zfill(_, _)
zfill(n, w) ==
    IF n < 10 /\ w <= 1 THEN <<Digits[n + 1]>>
    ELSE Append(zfill(n \div 10, w - 1), Digits[(n % 10) + 1])

(* time.strftime("%FT%TZ", time.gmtime(ts)) *)
strftime_gmtime(ts) ==
    LET c == civil_from_days(ts \div 86400)
        sod == ts % 86400 IN
    zfill(c.year, 4) \o <<"-">> \o zfill(c.month, 2) \o <<"-">> \o zfill(c.day, 2)
        \o <<"T">> \o zfill(sod \div 3600, 2) \o <<":">>
        \o zfill((sod % 3600) \div 60, 2) \o <<":">> \o zfill(sod % 60, 2) \o <<"Z">>

(* datetime.strptime(s, "%Y-%m-%dT%H:%M:%S") on a text whose fields have   *)
(* their full width; ok is FALSE when it raises ValueError                 *)
strptime(s) ==
    LET shaped == /\ Len(s) = 19
                  /\ s[5] = "-" /\ s[8] = "-" /\ s[11] = "T" /\ s[14] = ":" /\ s[17] = ":"
                  /\ \A k \in (1..19) \ {5, 8, 11, 14, 17} : IsDigit(s[k])
        f(a, b) == DigitsValue(SubSeq(s, a, b)) IN
    IF shaped /\ f(6, 7) \in 1..12 /\ f(9, 10) \in 1..31
              /\ f(12, 13) < 24 /\ f(15, 16) < 60 /\ f(18, 19) < 62
    THEN [ok |-> TRUE, year |-> f(1, 4), month |-> f(6, 7), day |-> f(9, 10),
          hour |-> f(12, 13), minute |-> f(15, 16), second |-> f(18, 19)]
    ELSE [ok |-> FALSE, year |-> 0, month |-> 0, day |-> 0,
          hour |-> 0, minute |-> 0, second |-> 0]

(* parse_iso8601: the text up to its first Z is parsed; exc is the         *)
(* exception raised, "" if none                                            *)
parse_iso8601(ts) ==
    IF find(ts, "Z") > 0
    THEN LET d == strptime(SubSeq(ts, 1, find(ts, "Z"))) IN
         [exc |-> IF d.ok THEN "" ELSE "ValueError", datetime |-> d]
    ELSE [exc |-> "RuntimeError", datetime |-> strptime(<<>>)]

(* time.mktime(d.timetuple()): d read as local time, utcoffset seconds     *)
(* east of UTC                                                             *)
mktime(d, utcoffset) ==
    days_from_civil(d.year, d.month, d.day) * 86400
        + d.hour * 3600 + d.minute * 60 + d.second - utcoffset

(* The values Times are made from: None, epoch seconds and the ISO 8601    *)
(* texts of the regression test                                            *)
Text_0203Z ==
    <<"2", "0", "0", "0", "-", "0", "1", "-", "0", "2", "T", "0", "2", ":",
      "0", "3", ":", "0", "4", "Z">>
Text_0303m01 ==
    <<"2", "0", "0", "0", "-", "0", "1", "-", "0", "2", "T", "0", "3", ":",
      "0", "3", ":", "0", "4", "-", "0", "1", "0", "0">>
Text_0203m01 ==
    <<"2", "0", "0", "0", "-", "0", "1", "-", "0", "2", "T", "0", "2", ":",
      "0", "3", ":", "0", "4", "-", "0", "1", "0", "0">>
Text_0203m02 ==
    <<"2", "0", "0", "0", "-", "0", "1", "-", "0", "2", "T", "0", "2", ":",
      "0", "3", ":", "0", "4", "-", "0", "2", "0", "0">>
Text_0103m02 ==
    <<"2", "0", "0", "0", "-", "0", "1", "-", "0", "2", "T", "0", "1", ":",
      "0", "3", ":", "0", "4", "-", "0", "2", "0", "0">>
Text_Frac ==
    <<"2", "0", "0", "9", "-", "1", "1", "-", "1", "7", "T", "0", "0", ":",
      "3", "3", ":", "3", "0", ".", "9", "3", "7", "5", "Z">>
Text_NoFrac ==
    <<"2", "0", "0", "9", "-", "1", "1", "-", "1", "7", "T", "0", "0", ":",
      "3", "3", ":", "3", "0", "Z">>
Text_ZeroFrac ==
    <<"2", "0", "0", "9", "-", "1", "1", "-", "1", "7", "T", "0", "0", ":",
      "3", "3", ":", "3", "0", ".", "0", "0", "0", "0", "Z">>

TimeTexts == {Text_0203Z, Text_0303m01, Text_0203m01, Text_0203m02,
              Text_0103m02, Text_Frac, Text_NoFrac, Text_ZeroFrac}

TimeInputs == {PyNone, PyInt(946778584), PyInt(-1)} \cup {PyStr(s) : s \in TimeTexts}

(* The offsets from UTC, in seconds, of the time zones the module runs in *)
LocalOffsets == {0, 3600}

(* byte_run(): what byte_run.__init__ sets when called without arguments.  *)
(* attr holds the attributes of the object, hashdigest its hash map.       *)
new_byte_run ==
    [attr |-> [k \in {"img_offset", "file_offset", "len", "sector_size"} |->
                  IF k = "sector_size" THEN PyInt(512) ELSE PyNone],
     hashdigest |-> EmptyDict]

(* byte_run.decode_sax_attributes: one attribute.  The statement that is   *)
(* to rename bytes to len is the comparison key=='len': it has no effect.  *)
decode_one(b, key, value) ==
    IF IsIntLiteral(value)
    THEN [b EXCEPT !.attr = Put(b.attr, key, PyInt(int(value)))]
    ELSE [b EXCEPT !.attr = Put(b.attr, key, PyStr(value))]

(* byte_run.decode_sax_attributes: the loop over attr.items().  No two     *)
(* items set the same attribute, so their order does not matter.           *)
RECURSIVE decode_sax_attributes(_, _)
decode_sax_attributes(b, attrs) ==
    IF DOMAIN attrs = {} THEN b
    ELSE LET key == CHOOSE k \in DOMAIN attrs : TRUE
             rest == [k \in (DOMAIN attrs) \ {key} |-> attrs[k]] IN
         decode_sax_attributes(decode_one(b, key, attrs[key]), rest)

----------------------------------------------------------------------------
(* fileobject_reader.  The reader is the record                            *)
(*   tagstack, cdata, fileobject, volumeobject, hashdigest_type,           *)
(*   imageobject                                                           *)
(* where fileobject and volumeobject hold <<>> for None and <<object>>     *)
(* otherwise.  A handler yields the reader after it, the arguments of the  *)
(* callback invocations it made, and the exception it raised ("" if none). *)

(* fileobject_reader.__init__ with xml_reader.__init__ *)
new_reader ==
    [tagstack |-> <<"xml">>,
     cdata |-> PyNone,
     fileobject |-> <<>>,
     volumeobject |-> <<>>,
     hashdigest_type |-> "",
     imageobject |-> EmptyDict]

(* fileobject_sax(imagefile), linked to the volume object of the reader *)
new_fileobject(id, volumeobject) ==
    [id |-> id,
     tags |-> EmptyDict,
     byte_runs |-> <<>>,
     hashdigest |-> EmptyDict,
     volume |-> IF volumeobject = <<>> THEN 0 ELSE volumeobject[1].id]

(* volumeobject_sax() with the block size the reader gives it *)
new_volumeobject(id) == [id |-> id, offset |-> PyInt(0), block_size |-> PyInt(512)]

Done(rd) == [rd |-> rd, calls |-> <<>>, exc |-> ""]
Raise(rd, exc) == [rd |-> rd, calls |-> <<>>, exc |-> exc]

(* Mutant: a run is put in front of the runs of the file object *)
start_element_PrependsRun(rd0, name, attrs, id) ==
    LET rd == [rd0 EXCEPT !.tagstack = Append(@, name), !.cdata = PyStr(<<>>)] IN
    IF name = "volume" THEN
        LET v == [rd EXCEPT !.volumeobject = <<new_volumeobject(id)>>] IN
        IF "offset" \in DOMAIN attrs
        THEN IF IsIntLiteral(attrs["offset"])
             THEN Done([v EXCEPT !.volumeobject[1].offset = PyInt(int(attrs["offset"]))])
             ELSE Raise(v, "ValueError")
        ELSE Done(v)
    ELSE IF name = "fileobject" THEN
        Done([rd EXCEPT !.fileobject = <<new_fileobject(id, rd.volumeobject)>>])
    ELSE IF name = "hashdigest" /\ "type" \notin DOMAIN attrs THEN
        Raise(rd, "KeyError")
    ELSE
        LET h == IF name = "hashdigest"
                 THEN [rd EXCEPT !.hashdigest_type = attrs["type"]] ELSE rd IN
        IF h.fileobject # <<>> /\ (name = "run" \/ name = "byte_run")
        THEN Done([h EXCEPT !.fileobject[1].byte_runs =
                        <<decode_sax_attributes(new_byte_run, attrs)>> \o @])
        ELSE Done(h)

(* fileobject_reader._start_element; id is the identity of the object the  *)
(* handler creates, if it creates one                                      *)
start_element(rd0, name, attrs, id) ==
    LET rd == [rd0 EXCEPT !.tagstack = Append(@, name), !.cdata = PyStr(<<>>)] IN
    IF name = "volume" THEN
        LET v == [rd EXCEPT !.volumeobject = <<new_volumeobject(id)>>] IN
        IF "offset" \in DOMAIN attrs
        THEN IF IsIntLiteral(attrs["offset"])
             THEN Done([v EXCEPT !.volumeobject[1].offset = PyInt(int(attrs["offset"]))])
             ELSE Raise(v, "ValueError")
        ELSE Done(v)
    ELSE IF name = "fileobject" THEN
        Done([rd EXCEPT !.fileobject = <<new_fileobject(id, rd.volumeobject)>>])
    ELSE IF name = "hashdigest" /\ "type" \notin DOMAIN attrs THEN
        Raise(rd, "KeyError")
    ELSE
        LET h == IF name = "hashdigest"
                 THEN [rd EXCEPT !.hashdigest_type = attrs["type"]] ELSE rd IN
        IF h.fileobject # <<>> /\ (name = "run" \/ name = "byte_run")
        THEN Done([h EXCEPT !.fileobject[1].byte_runs =
                        Append(@, decode_sax_attributes(new_byte_run, attrs))])
        ELSE Done(h)

(* xml_reader._char_data *)
char_data(rd, data) ==
    IF rd.cdata # PyNone
    THEN Done([rd EXCEPT !.cdata = PyStr(rd.cdata.s \o data)])
    ELSE Done(rd)

(* fileobject_reader._end_element: the part for a closing hashdigest *)
end_hashdigest(rd) ==
    LET top == rd.tagstack[Len(rd.tagstack)]
        alg == lower(rd.hashdigest_type)
        fo == rd.fileobject IN
    IF top = "byte_run" /\ fo = <<>> THEN Raise(rd, "AttributeError")
    ELSE IF top = "byte_run" /\ fo[1].byte_runs = <<>> THEN Raise(rd, "IndexError")
    ELSE
        LET r1 == IF top = "byte_run"
                  THEN [rd EXCEPT !.fileobject[1].byte_runs[Len(fo[1].byte_runs)].hashdigest =
                                     Put(@, alg, rd.cdata)]
                  ELSE rd IN
        IF top = "fileobject" /\ fo = <<>> THEN Raise(r1, "AttributeError")
        ELSE IF top = "fileobject"
        THEN Done([r1 EXCEPT !.fileobject[1].tags = Put(@, alg, rd.cdata),
                             !.fileobject[1].hashdigest = Put(@, alg, rd.cdata),
                             !.cdata = PyNone])
        ELSE Done([r1 EXCEPT !.cdata = PyNone])

(* Mutant: the callback is not invoked when no file object is current *)
end_element_SkipsNone(rd0, name, callback_raises) ==
    LET popped == rd0.tagstack[Len(rd0.tagstack)]
        rd == [rd0 EXCEPT !.tagstack = SubSeq(@, 1, Len(@) - 1)] IN
    IF popped # name THEN Raise(rd, "AssertionError")
    ELSE IF name = "volume" THEN Done([rd EXCEPT !.volumeobject = <<>>])
    ELSE IF name = "block_size" /\ Len(rd.tagstack) > 1 THEN
        IF rd.tagstack[Len(rd.tagstack)] = "volume"
        THEN IF rd.volumeobject = <<>> THEN Raise(rd, "AttributeError")
             ELSE IF rd.cdata = PyNone THEN Raise(rd, "TypeError")
             ELSE IF ~IsIntLiteral(rd.cdata.s) THEN Raise(rd, "ValueError")
             ELSE Done([rd EXCEPT !.volumeobject[1].block_size = PyInt(int(rd.cdata.s)),
                                  !.cdata = PyNone])
        ELSE Done(rd)
    ELSE IF name = "fileobject" THEN
        IF rd.fileobject = <<>> THEN Done(rd)
        ELSE IF callback_raises
        THEN [rd |-> rd, calls |-> <<rd.fileobject>>, exc |-> "CallbackError"]
        ELSE [rd |-> [rd EXCEPT !.fileobject = <<>>],
              calls |-> <<rd.fileobject>>, exc |-> ""]
    ELSE IF name = "hashdigest" /\ Len(rd.tagstack) > 0 THEN end_hashdigest(rd)
    ELSE IF rd.fileobject # <<>> THEN
        Done([rd EXCEPT !.fileobject[1].tags = Put(@, name, rd.cdata),
                        !.cdata = PyNone])
    ELSE IF name \in {"image_filename", "imagefile"}
            /\ rd.tagstack[Len(rd.tagstack)] = "source" THEN
        Done([rd EXCEPT !.imageobject = Put(@, "image_filename", rd.cdata)])
    ELSE Done(rd)

(* Mutant: the reader keeps the file object after the callback returned *)
end_element_KeepsRecord(rd0, name, callback_raises) ==
    LET popped == rd0.tagstack[Len(rd0.tagstack)]
        rd == [rd0 EXCEPT !.tagstack = SubSeq(@, 1, Len(@) - 1)] IN
    IF popped # name THEN Raise(rd, "AssertionError")
    ELSE IF name = "volume" THEN Done([rd EXCEPT !.volumeobject = <<>>])
    ELSE IF name = "block_size" /\ Len(rd.tagstack) > 1 THEN
        IF rd.tagstack[Len(rd.tagstack)] = "volume"
        THEN IF rd.volumeobject = <<>> THEN Raise(rd, "AttributeError")
             ELSE IF rd.cdata = PyNone THEN Raise(rd, "TypeError")
             ELSE IF ~IsIntLiteral(rd.cdata.s) THEN Raise(rd, "ValueError")
             ELSE Done([rd EXCEPT !.volumeobject[1].block_size = PyInt(int(rd.cdata.s)),
                                  !.cdata = PyNone])
        ELSE Done(rd)
    ELSE IF name = "fileobject" THEN
        IF callback_raises
        THEN [rd |-> rd, calls |-> <<rd.fileobject>>, exc |-> "CallbackError"]
        ELSE [rd |-> rd, calls |-> <<rd.fileobject>>, exc |-> ""]
    ELSE IF name = "hashdigest" /\ Len(rd.tagstack) > 0 THEN end_hashdigest(rd)
    ELSE IF rd.fileobject # <<>> THEN
        Done([rd EXCEPT !.fileobject[1].tags = Put(@, name, rd.cdata),
                        !.cdata = PyNone])
    ELSE IF name \in {"image_filename", "imagefile"}
            /\ rd.tagstack[Len(rd.tagstack)] = "source" THEN
        Done([rd EXCEPT !.imageobject = Put(@, "image_filename", rd.cdata)])
    ELSE Done(rd)

(* Mutant: the volume stays the current one after its element closed *)
end_element_KeepsVolume(rd0, name, callback_raises) ==
    LET popped == rd0.tagstack[Len(rd0.tagstack)]
        rd == [rd0 EXCEPT !.tagstack = SubSeq(@, 1, Len(@) - 1)] IN
    IF popped # name THEN Raise(rd, "AssertionError")
    ELSE IF name = "volume" THEN Done(rd)
    ELSE IF name = "block_size" /\ Len(rd.tagstack) > 1 THEN
        IF rd.tagstack[Len(rd.tagstack)] = "volume"
        THEN IF rd.volumeobject = <<>> THEN Raise(rd, "AttributeError")
             ELSE IF rd.cdata = PyNone THEN Raise(rd, "TypeError")
             ELSE IF ~IsIntLiteral(rd.cdata.s) THEN Raise(rd, "ValueError")
             ELSE Done([rd EXCEPT !.volumeobject[1].block_size = PyInt(int(rd.cdata.s)),
                                  !.cdata = PyNone])
        ELSE Done(rd)
    ELSE IF name = "fileobject" THEN
        IF callback_raises
        THEN [rd |-> rd, calls |-> <<rd.fileobject>>, exc |-> "CallbackError"]
        ELSE [rd |-> [rd EXCEPT !.fileobject = <<>>],
              calls |-> <<rd.fileobject>>, exc |-> ""]
    ELSE IF name = "hashdigest" /\ Len(rd.tagstack) > 0 THEN end_hashdigest(rd)
    ELSE IF rd.fileobject # <<>> THEN
        Done([rd EXCEPT !.fileobject[1].tags = Put(@, name, rd.cdata),
                        !.cdata = PyNone])
    ELSE IF name \in {"image_filename", "imagefile"}
            /\ rd.tagstack[Len(rd.tagstack)] = "source" THEN
        Done([rd EXCEPT !.imageobject = Put(@, "image_filename", rd.cdata)])
    ELSE Done(rd)

(* Mutant: a callback that raises is invoked a second time *)
end_element_RetriesCallback(rd0, name, callback_raises) ==
    LET popped == rd0.tagstack[Len(rd0.tagstack)]
        rd == [rd0 EXCEPT !.tagstack = SubSeq(@, 1, Len(@) - 1)] IN
    IF popped # name THEN Raise(rd, "AssertionError")
    ELSE IF name = "volume" THEN Done([rd EXCEPT !.volumeobject = <<>>])
    ELSE IF name = "block_size" /\ Len(rd.tagstack) > 1 THEN
        IF rd.tagstack[Len(rd.tagstack)] = "volume"
        THEN IF rd.volumeobject = <<>> THEN Raise(rd, "AttributeError")
             ELSE IF rd.cdata = PyNone THEN Raise(rd, "TypeError")
             ELSE IF ~IsIntLiteral(rd.cdata.s) THEN Raise(rd, "ValueError")
             ELSE Done([rd EXCEPT !.volumeobject[1].block_size = PyInt(int(rd.cdata.s)),
                                  !.cdata = PyNone])
        ELSE Done(rd)
    ELSE IF name = "fileobject" THEN
        IF callback_raises
        THEN [rd |-> rd, calls |-> <<rd.fileobject, rd.fileobject>>,
              exc |-> "CallbackError"]
        ELSE [rd |-> [rd EXCEPT !.fileobject = <<>>],
              calls |-> <<rd.fileobject>>, exc |-> ""]
    ELSE IF name = "hashdigest" /\ Len(rd.tagstack) > 0 THEN end_hashdigest(rd)
    ELSE IF rd.fileobject # <<>> THEN
        Done([rd EXCEPT !.fileobject[1].tags = Put(@, name, rd.cdata),
                        !.cdata = PyNone])
    ELSE IF name \in {"image_filename", "imagefile"}
            /\ rd.tagstack[Len(rd.tagstack)] = "source" THEN
        Done([rd EXCEPT !.imageobject = Put(@, "image_filename", rd.cdata)])
    ELSE Done(rd)

(* fileobject_reader._end_element; callback_raises tells whether the       *)
(* caller's callback raises when it is invoked                             *)
end_element(rd0, name, callback_raises) ==
    LET popped == rd0.tagstack[Len(rd0.tagstack)]
        rd == [rd0 EXCEPT !.tagstack = SubSeq(@, 1, Len(@) - 1)] IN
    IF popped # name THEN Raise(rd, "AssertionError")
    ELSE IF name = "volume" THEN Done([rd EXCEPT !.volumeobject = <<>>])
    ELSE IF name = "block_size" /\ Len(rd.tagstack) > 1 THEN
        IF rd.tagstack[Len(rd.tagstack)] = "volume"
        THEN IF rd.volumeobject = <<>> THEN Raise(rd, "AttributeError")
             ELSE IF rd.cdata = PyNone THEN Raise(rd, "TypeError")
             ELSE IF ~IsIntLiteral(rd.cdata.s) THEN Raise(rd, "ValueError")
             ELSE Done([rd EXCEPT !.volumeobject[1].block_size = PyInt(int(rd.cdata.s)),
                                  !.cdata = PyNone])
        ELSE Done(rd)
    ELSE IF name = "fileobject" THEN
        IF callback_raises
        THEN [rd |-> rd, calls |-> <<rd.fileobject>>, exc |-> "CallbackError"]
        ELSE [rd |-> [rd EXCEPT !.fileobject = <<>>],
              calls |-> <<rd.fileobject>>, exc |-> ""]
    ELSE IF name = "hashdigest" /\ Len(rd.tagstack) > 0 THEN end_hashdigest(rd)
    ELSE IF rd.fileobject # <<>> THEN
        Done([rd EXCEPT !.fileobject[1].tags = Put(@, name, rd.cdata),
                        !.cdata = PyNone])
    ELSE IF name \in {"image_filename", "imagefile"}
            /\ rd.tagstack[Len(rd.tagstack)] = "source" THEN
        Done([rd EXCEPT !.imageobject = Put(@, "image_filename", rd.cdata)])
    ELSE Done(rd)

----------------------------------------------------------------------------
(* regxml_reader.  The reader is the record                                *)
(*   tagstack, cdata, objectstack, registry_object, nonce, heap            *)
(* where heap holds the objects the reader has made, objectstack and       *)
(* registry_object refer to them by position (0 for None), and a field     *)
(* that may be None holds <<>> for None and <<value>> otherwise.           *)

(* attrs.get(k) *)
Get(attrs, k) == IF k \in DOMAIN attrs THEN <<attrs[k]>> ELSE <<>>

(* safe_b64decode on the encoded names of the streams; <<>> when the       *)
(* decoder raises                                                          *)
safe_b64decode(b64data) ==
    CASE b64data = "QQ==" -> <<"A">>
      [] b64data = "Qg==" -> <<"B">>
      [] OTHER -> <<>>

(* str(n) of a natural number *)
RECURSIVE str(_)
str(n) == IF n < 10 THEN Digits[n + 1] ELSE str(n \div 10) \o Digits[(n % 10) + 1]

(* dftime(val) of None, a number or a str: an ISO 8601 text is kept, any   *)
(* other text must be an int literal. null says that both representations  *)
(* are set to None; an empty iso8601 or timestamp is an attribute not set  *)
dftime(val) ==
    IF val = PyNone
    THEN [ok |-> TRUE, null |-> TRUE, iso8601 |-> <<>>, timestamp |-> <<>>]
    ELSE IF val.t = "int"
    THEN [ok |-> TRUE, null |-> FALSE, iso8601 |-> <<>>, timestamp |-> <<val.i>>]
    ELSE IF Len(val.s) > 5 /\ val.s[5] = "-"
    THEN [ok |-> TRUE, null |-> FALSE, iso8601 |-> <<val.s>>, timestamp |-> <<>>]
    ELSE IF IsIntLiteral(val.s)
    THEN [ok |-> TRUE, null |-> FALSE, iso8601 |-> <<>>, timestamp |-> <<int(val.s)>>]
    ELSE [ok |-> FALSE, null |-> FALSE, iso8601 |-> <<>>, timestamp |-> <<>>]

(* dftime.iso8601(): the text the Time was made from, else the text of its *)
(* timestamp; v is empty for None                                          *)
iso8601(t) ==
    IF t.null THEN <<>>
    ELSE IF t.iso8601 # <<>> THEN t.iso8601
    ELSE <<strftime_gmtime(t.timestamp[1])>>

(* dftime.timestamp(): the number the Time was made from, else the local   *)
(* time of its text; v is empty for None, exc the exception raised         *)
timestamp(t, utcoffset) ==
    IF t.null THEN [exc |-> "", v |-> <<>>]
    ELSE IF t.timestamp # <<>> THEN [exc |-> "", v |-> t.timestamp]
    ELSE LET p == parse_iso8601(t.iso8601[1]) IN
         IF p.exc # "" THEN [exc |-> p.exc, v |-> <<>>]
         ELSE [exc |-> "", v |-> <<mktime(p.datetime, utcoffset)>>]

(* The outcome of a comparison method: "True", "False", "NotImplemented"   *)
(* or the name of the exception it raises                                  *)
Bool(b) == IF b THEN "True" ELSE "False"

(* dftime.__le__ and dftime.__gt__ compare the texts; comparing with None  *)
(* is not implemented                                                      *)
dftime_le(a, b, utcoffset) ==
    IF iso8601(a) = <<>> \/ iso8601(b) = <<>> THEN "NotImplemented"
    ELSE Bool(str_le(iso8601(a)[1], iso8601(b)[1]))

dftime_gt(a, b, utcoffset) ==
    IF iso8601(a) = <<>> \/ iso8601(b) = <<>> THEN "NotImplemented"
    ELSE Bool(str_gt(iso8601(a)[1], iso8601(b)[1]))

(* ComparableMixin._compare on _cmpkey(), the timestamps: the TypeError of *)
(* ordering None is caught, any other exception leaves the method          *)
ComparableMixin_compare(a, b, utcoffset, less) ==
    LET x == timestamp(a, utcoffset)
        y == timestamp(b, utcoffset) IN
    IF x.exc # "" THEN x.exc
    ELSE IF y.exc # "" THEN y.exc
    ELSE IF x.v = <<>> \/ y.v = <<>> THEN "NotImplemented"
    ELSE Bool(IF less THEN x.v[1] < y.v[1] ELSE x.v[1] >= y.v[1])

dftime_lt(a, b, utcoffset) == ComparableMixin_compare(a, b, utcoffset, TRUE)
dftime_ge(a, b, utcoffset) == ComparableMixin_compare(a, b, utcoffset, FALSE)

(* dftime.__eq__: b is never None here, the timestamps are compared *)
dftime_eq(a, b, utcoffset) ==
    LET x == timestamp(a, utcoffset)
        y == timestamp(b, utcoffset) IN
    IF x.exc # "" THEN x.exc
    ELSE IF y.exc # "" THEN y.exc
    ELSE Bool(x.v = y.v)

(* The operators a < b, a <= b, a > b, a >= b of Python 3: the method of   *)
(* a, then the reflected method of b, then TypeError                       *)
RichCompare(first, reflected) ==
    IF first # "NotImplemented" THEN first
    ELSE IF reflected # "NotImplemented" THEN reflected
    ELSE "TypeError"

compare(a, b, utcoffset) ==
    [lt |-> RichCompare(dftime_lt(a, b, utcoffset), dftime_gt(b, a, utcoffset)),
     le |-> RichCompare(dftime_le(a, b, utcoffset), dftime_ge(b, a, utcoffset)),
     gt |-> RichCompare(dftime_gt(a, b, utcoffset), dftime_lt(b, a, utcoffset)),
     ge |-> RichCompare(dftime_ge(a, b, utcoffset), dftime_le(b, a, utcoffset)),
     eq |-> dftime_eq(a, b, utcoffset)]

(* regxml_reader.__init__ with xml_reader.__init__ *)
new_regxml ==
    [tagstack |-> <<"xml">>,
     cdata |-> PyNone,
     objectstack |-> <<>>,
     registry_object |-> 0,
     nonce |-> 0,
     heap |-> <<>>]

(* registry_object(), registry_key_object() and registry_value_object()    *)
(* as they are after __init__; cell tells which of the three it is         *)
new_object(cell) ==
    [cell |-> cell,
     type |-> <<>>,
     parent_key |-> 0,
     name |-> <<>>,
     full_path |-> <<>>,
     byte_runs |-> <<>>,
     mtime |-> <<>>,
     value_data |-> PyNone,
     strings |-> <<>>,
     used |-> TRUE,
     object_index |-> [p \in {} |-> 0],
     registry_handle |-> 0]

RegDone(rd) == [rd |-> rd, calls |-> <<>>, exc |-> "", issued |-> <<>>]
RegRaise(rd, exc) == [rd |-> rd, calls |-> <<>>, exc |-> exc, issued |-> <<>>]

(* The object on top of the object stack *)
Top(rd) == rd.objectstack[Len(rd.objectstack)]

(* Mutant: the placeholder counter is not advanced *)
key_name_NoAdvance(attrs, nonce) ==
    IF Get(attrs, "name") = <<>>
    THEN [name |-> <<"__DFXML_NONCE_" \o str(nonce)>>, nonce |-> nonce,
          issued |-> <<"__DFXML_NONCE_" \o str(nonce)>>]
    ELSE IF Get(attrs, "name_encoding") = <<"base64">>
    THEN [name |-> safe_b64decode(attrs["name"]), nonce |-> nonce, issued |-> <<>>]
    ELSE [name |-> <<attrs["name"]>>, nonce |-> nonce, issued |-> <<>>]

(* regxml_reader._start_element, key: the name of the new key, the counter *)
(* after it and the placeholder made up, if one was                        *)
key_name(attrs, nonce) ==
    IF Get(attrs, "name") = <<>>
    THEN [name |-> <<"__DFXML_NONCE_" \o str(nonce)>>, nonce |-> nonce + 1,
          issued |-> <<"__DFXML_NONCE_" \o str(nonce)>>]
    ELSE IF Get(attrs, "name_encoding") = <<"base64">>
    THEN [name |-> safe_b64decode(attrs["name"]), nonce |-> nonce, issued |-> <<>>]
    ELSE [name |-> <<attrs["name"]>>, nonce |-> nonce, issued |-> <<>>]

(* Mutant: a key under a parent gets the path of a key without parent *)
key_full_path_IgnoresParent(heap, parent_key, name) == "\\" \o name

(* regxml_reader._start_element, key: the full path of the new key *)
key_full_path(heap, parent_key, name) ==
    IF parent_key = 0 THEN "\\" \o name
    ELSE heap[parent_key].full_path[1] \o "\\" \o name

(* regxml_reader._start_element, key or node *)
start_key(rd, attrs) ==
    LET type == IF Get(attrs, "root") = <<"1">> THEN "root" ELSE ""
        parent_key == IF Len(rd.objectstack) > 1 THEN Top(rd) ELSE 0
        n == key_name(attrs, rd.nonce)
        named == [rd EXCEPT !.nonce = n.nonce] IN
    IF type = "root" /\ parent_key # 0 THEN RegRaise(rd, "AssertionError")
    ELSE IF parent_key = 0 /\ ~(new_object("key").used = FALSE \/ type = "root")
    THEN RegRaise(rd, "AssertionError")
    ELSE IF n.name = <<>> THEN RegRaise(rd, "binascii.Error")
    ELSE IF parent_key # 0 /\ rd.heap[parent_key].cell = "hive"
    THEN [rd |-> named, calls |-> <<>>, exc |-> "AttributeError", issued |-> n.issued]
    ELSE
        LET o == [new_object("key") EXCEPT
                     !.type = <<type>>,
                     !.parent_key = parent_key,
                     !.name = n.name,
                     !.full_path = <<key_full_path(rd.heap, parent_key, n.name[1])>>,
                     !.registry_handle = rd.registry_object] IN
        [rd |-> [named EXCEPT !.heap = Append(@, o),
                              !.objectstack = Append(@, Len(rd.heap) + 1)],
         calls |-> <<>>, exc |-> "", issued |-> n.issued]

(* regxml_reader.decoded_value; the encoded values of the streams *)
decoded_value(attrs) ==
    IF Get(attrs, "value") \in {<<>>, <<"">>} THEN PyNone
    ELSE IF (IF "encoding" \in DOMAIN attrs THEN Get(attrs, "encoding")
             ELSE Get(attrs, "value_encoding")) = <<"base64">>
    THEN [t |-> "bytes", i |-> 0,
          s |-> CASE attrs["value"] = "YQ==" -> <<"a">> [] OTHER -> <<>>]
    ELSE [t |-> "text", i |-> 0, s |-> <<attrs["value"]>>]

(* regxml_reader._start_element, value *)
start_value(rd, attrs) ==
    IF rd.objectstack = <<>> THEN RegRaise(rd, "IndexError")
    ELSE
    LET parent_key == Top(rd)
        type == Get(attrs, "type")
        enc == IF "name_encoding" \in DOMAIN attrs THEN Get(attrs, "name_encoding")
               ELSE Get(attrs, "key_encoding")
        name_data == IF "name" \in DOMAIN attrs THEN Get(attrs, "name")
                     ELSE Get(attrs, "key")
        default == Get(attrs, "default") = <<"1">>
        name == IF default THEN <<"Default">>
                ELSE IF enc = <<"base64">> /\ name_data # <<>>
                THEN safe_b64decode(name_data[1])
                ELSE name_data IN
    IF ~default /\ enc = <<"base64">> /\ name_data = <<>> THEN RegRaise(rd, "AttributeError")
    ELSE IF ~default /\ enc = <<"base64">> /\ name = <<>> THEN RegRaise(rd, "binascii.Error")
    ELSE IF rd.heap[parent_key].cell = "hive" THEN RegRaise(rd, "AttributeError")
    ELSE IF name = <<>> THEN RegRaise(rd, "TypeError")
    ELSE
        LET o == [new_object("value") EXCEPT
                     !.parent_key = parent_key,
                     !.type = type,
                     !.strings = IF type = <<"string-list">> THEN << <<>> >> ELSE <<>>,
                     !.name = name,
                     !.full_path = <<rd.heap[parent_key].full_path[1] \o "\\" \o name[1]>>,
                     !.value_data = decoded_value(attrs),
                     !.registry_handle = rd.registry_object] IN
        RegDone([rd EXCEPT !.heap = Append(@, o),
                           !.objectstack = Append(@, Len(rd.heap) + 1)])

(* regxml_reader._start_element *)
reg_start_element(rd, name, attrs) ==
    IF name \in {"msregistry", "hive"} THEN
        LET o == [new_object("hive") EXCEPT !.registry_handle = Len(rd.heap) + 1] IN
        RegDone([rd EXCEPT !.heap = Append(@, o),
                           !.objectstack = Append(@, Len(rd.heap) + 1),
                           !.registry_object = Len(rd.heap) + 1])
    ELSE IF name \in {"key", "node"} THEN start_key(rd, attrs)
    ELSE IF name = "value" THEN start_value(rd, attrs)
    ELSE IF name \in {"mtime", "string"} THEN RegDone([rd EXCEPT !.cdata = PyStr(<<>>)])
    ELSE IF name = "byte_runs" THEN RegDone(rd)
    ELSE IF name = "byte_run" THEN
        IF rd.objectstack = <<>> THEN RegRaise(rd, "IndexError")
        ELSE IF rd.heap[Top(rd)].cell = "hive" THEN RegRaise(rd, "AttributeError")
        ELSE RegDone([rd EXCEPT !.heap[Top(rd)].byte_runs =
                         Append(@, [new_byte_run EXCEPT
                             !.attr["file_offset"] =
                                 IF "file_offset" \in DOMAIN attrs
                                 THEN PyStr(attrs["file_offset"]) ELSE PyNone,
                             !.attr["len"] =
                                 IF "len" \in DOMAIN attrs
                                 THEN PyStr(attrs["len"]) ELSE PyNone])])
    ELSE RegRaise(rd, "ValueError")

(* The finished object as the callback gets it *)
Delivered(rd, finished_object, callback_raises) ==
    [rd |-> rd, calls |-> <<rd.heap[finished_object]>>,
     exc |-> IF callback_raises THEN "CallbackError" ELSE "", issued |-> <<>>]

(* Mutant: the finished key is delivered without being put in the index *)
end_key_SkipsIndex(rd0, callback_raises) ==
    IF rd0.objectstack = <<>> THEN RegRaise(rd0, "IndexError")
    ELSE
    LET finished_object == Top(rd0)
        rd == [rd0 EXCEPT !.objectstack = SubSeq(@, 1, Len(@) - 1)]
        hive == rd.registry_object IN
    IF rd.heap[finished_object].cell = "hive" THEN RegRaise(rd, "AttributeError")
    ELSE IF hive = 0 THEN RegRaise(rd, "AttributeError")
    ELSE IF rd.heap[finished_object].full_path[1] \in DOMAIN rd.heap[hive].object_index
    THEN RegRaise(rd, "ValueError")
    ELSE Delivered(rd, finished_object, callback_raises)

(* regxml_reader._end_element, key or node *)
end_key(rd0, callback_raises) ==
    IF rd0.objectstack = <<>> THEN RegRaise(rd0, "IndexError")
    ELSE
    LET finished_object == Top(rd0)
        rd == [rd0 EXCEPT !.objectstack = SubSeq(@, 1, Len(@) - 1)]
        hive == rd.registry_object IN
    IF rd.heap[finished_object].cell = "hive" THEN RegRaise(rd, "AttributeError")
    ELSE IF hive = 0 THEN RegRaise(rd, "AttributeError")
    ELSE IF rd.heap[finished_object].full_path[1] \in DOMAIN rd.heap[hive].object_index
    THEN RegRaise(rd, "ValueError")
    ELSE Delivered([rd EXCEPT !.heap[hive].object_index =
                        Put(@, rd.heap[finished_object].full_path[1], finished_object)],
                   finished_object, callback_raises)

(* regxml_reader._end_element, value *)
end_value(rd0, callback_raises) ==
    IF rd0.objectstack = <<>> THEN RegRaise(rd0, "IndexError")
    ELSE
    LET finished_object == Top(rd0)
        rd == [rd0 EXCEPT !.objectstack = SubSeq(@, 1, Len(@) - 1)] IN
    IF rd.heap[finished_object].value_data = PyNone
    THEN Delivered([rd EXCEPT !.heap[finished_object].value_data = rd.cdata],
                   finished_object, callback_raises)
    ELSE Delivered(rd, finished_object, callback_raises)

(* regxml_reader._end_element *)
reg_end_element(rd, name, callback_raises) ==
    IF name \in {"msregistry", "hive"} THEN RegDone(rd)
    ELSE IF name \in {"key", "node"} THEN end_key(rd, callback_raises)
    ELSE IF name = "mtime" THEN
        IF rd.objectstack = <<>> THEN RegRaise(rd, "IndexError")
        ELSE IF ~dftime(rd.cdata).ok THEN RegRaise(rd, "ValueError")
        ELSE RegDone([rd EXCEPT !.heap[Top(rd)].mtime = <<dftime(rd.cdata)>>,
                                !.cdata = PyNone])
    ELSE IF name = "value" THEN end_value(rd, callback_raises)
    ELSE IF name = "string" THEN
        IF rd.objectstack = <<>> THEN RegRaise(rd, "IndexError")
        ELSE IF rd.heap[Top(rd)].cell # "value" THEN RegRaise(rd, "AttributeError")
        ELSE IF rd.heap[Top(rd)].strings = <<>> THEN RegRaise(rd, "ValueError")
        ELSE RegDone([rd EXCEPT !.heap[Top(rd)].strings[1] = Append(@, rd.cdata),
                                !.cdata = PyNone])
    ELSE IF name \in {"byte_runs", "byte_run"} THEN RegDone(rd)
    ELSE RegRaise(rd, "ValueError")

----------------------------------------------------------------------------
(* extentdb.__init__ makes the empty database.  read_dfxml and read_regxml *)
(* make a reader and expat feeds it the events of the stream, one at a     *)
(* time, until the stream ends or a handler raises.                        *)
Init ==
    /\ db = extentdb(512).db
    /\ pre = <<>>
    /\ sectorsize = extentdb(512).sectorsize
    /\ op = "init"
    /\ arg = <<>>
    /\ ret = RNone
    /\ err = NoError
    /\ reader = new_reader
    /\ raised = ""
    /\ nobjects = 0
    /\ nevents = 0
    /\ event = [kind |-> "none", name |-> "", attrs |-> <<>>]
    /\ callbacks = <<>>
    /\ closes = <<>>
    /\ parsing = ""
    /\ regxml = new_regxml
    /\ opened = <<"xml">>
    /\ issued = <<>>
    /\ threads = [c \in Callers |-> [pc |-> "idle", extent |-> byte_run(0, 0)]]
    /\ interleaved = FALSE
    /\ inside = [open |-> <<>>, closed |-> <<>>]
    /\ context = [open |-> <<>>, at |-> <<>>]

(* The run elements of the stream, by the fileobject elements around them: *)
(* a fileobject element that opens has none yet, a run element that opens  *)
(* is inside every open fileobject element                                 *)
RunsInside(kind, name, attrs) ==
    IF kind = "start" /\ name = "fileobject"
    THEN [inside EXCEPT !.open = Append(@, <<>>)]
    ELSE IF kind = "start" /\ name \in {"run", "byte_run"}
    THEN [inside EXCEPT !.open = [i \in 1..Len(@) |-> Append(@[i], attrs)]]
    ELSE IF kind = "end" /\ name = "fileobject" /\ inside.open # <<>>
    THEN [open |-> SubSeq(inside.open, 1, Len(inside.open) - 1),
          closed |-> inside.open[Len(inside.open)]]
    ELSE inside

(* The volume elements of the stream: an element is numbered as the object *)
(* its open makes; at holds <<fileobject element, volume element>> pairs   *)
VolumesOpen(kind, name) ==
    IF kind = "start" /\ name = "volume"
    THEN [context EXCEPT !.open = Append(@, nobjects + 1)]
    ELSE IF kind = "end" /\ name = "volume" /\ context.open # <<>>
    THEN [context EXCEPT !.open = SubSeq(@, 1, Len(@) - 1)]
    ELSE IF kind = "start" /\ name = "fileobject"
    THEN [context EXCEPT !.at = Append(@, <<nobjects + 1,
              IF context.open = <<>> THEN 0 ELSE context.open[Len(context.open)]>>)]
    ELSE context

(* The bookkeeping of one handled event whose handler yielded r *)
Handled(r, kind, name, attrs) ==
    /\ reader' = r.rd
    /\ raised' = r.exc
    /\ nevents' = nevents + 1
    /\ event' = [kind |-> kind, name |-> name, attrs |-> attrs]
    /\ callbacks' = callbacks \o
           [i \in 1..Len(r.calls) |-> [arg |-> r.calls[i], at |-> nevents + 1]]
    /\ closes' = IF kind = "end" /\ name = "fileobject"
                 THEN Append(closes, nevents + 1) ELSE closes
    /\ inside' = RunsInside(kind, name, attrs)
    /\ context' = VolumesOpen(kind, name)

(* expat reports the start of an element *)
StartElement ==
    /\ raised = ""
    /\ nevents < MaxEvents
    /\ parsing \in {"", "dfxml"}
    /\ parsing' = "dfxml"
    /\ UNCHANGED regvars
    /\ \E name \in Children(reader.tagstack[Len(reader.tagstack)]) :
       \E attrs \in AttrsOf(name) :
           /\ Handled(start_element(reader, name, attrs, nobjects + 1), "start", name, attrs)
           /\ nobjects' = IF name \in {"volume", "fileobject"}
                          THEN nobjects + 1 ELSE nobjects
    /\ UNCHANGED dbvars

(* expat reports character data *)
CharData ==
    /\ raised = ""
    /\ nevents < MaxEvents
    /\ parsing \in {"", "dfxml"}
    /\ parsing' = "dfxml"
    /\ UNCHANGED regvars
    /\ Len(reader.tagstack) > 1
    /\ \E data \in CharChunks : Handled(char_data(reader, data), "chars", "", <<>>)
    /\ UNCHANGED nobjects
    /\ UNCHANGED dbvars

(* expat reports the end of the innermost open element; the callback       *)
(* returns or raises                                                       *)
EndElement ==
    /\ raised = ""
    /\ nevents < MaxEvents
    /\ parsing \in {"", "dfxml"}
    /\ parsing' = "dfxml"
    /\ UNCHANGED regvars
    /\ Len(reader.tagstack) > 1
    /\ LET name == reader.tagstack[Len(reader.tagstack)] IN
       \E callback_raises \in (IF name = "fileobject" THEN BOOLEAN ELSE {FALSE}) :
           Handled(end_element(reader, name, callback_raises), "end", name, <<>>)
    /\ UNCHANGED nobjects
    /\ UNCHANGED dbvars

NextReader == StartElement \/ CharData \/ EndElement

(* The bookkeeping of one event of a registry stream whose handler yielded *)
(* r, the elements open after it being elements                            *)
RegHandled(r, kind, name, attrs, elements) ==
    /\ regxml' = r.rd
    /\ raised' = r.exc
    /\ nevents' = nevents + 1
    /\ event' = [kind |-> kind, name |-> name, attrs |-> attrs]
    /\ callbacks' = callbacks \o
           [i \in 1..Len(r.calls) |-> [arg |-> r.calls[i], at |-> nevents + 1]]
    /\ issued' = issued \o r.issued
    /\ opened' = elements
    /\ parsing' = "regxml"
    /\ UNCHANGED <<reader, nobjects, closes, inside, context>>

(* expat reports the start of an element of a registry stream; a document  *)
(* has one outermost element                                               *)
RegStartElement ==
    /\ raised = ""
    /\ nevents < MaxEvents
    /\ parsing \in {"", "regxml"}
    /\ Len(opened) = 1 => nevents = 0
    /\ \E name \in RegChildren(opened[Len(opened)]) :
       \E attrs \in RegAttrsOf(name) :
           RegHandled(reg_start_element(regxml, name, attrs), "start", name, attrs,
                      Append(opened, name))
    /\ UNCHANGED dbvars

(* expat reports character data of a registry stream *)
RegCharData ==
    /\ raised = ""
    /\ nevents < MaxEvents
    /\ parsing = "regxml"
    /\ opened[Len(opened)] \in {"mtime", "string", "value"}
    /\ \E data \in RegCharChunks :
           LET r == char_data(regxml, data) IN
           RegHandled([rd |-> r.rd, calls |-> r.calls, exc |-> r.exc, issued |-> <<>>],
                      "chars", "", <<>>, opened)
    /\ UNCHANGED dbvars

(* expat reports the end of the innermost open element of a registry       *)
(* stream; the callback returns or raises                                  *)
RegEndElement ==
    /\ raised = ""
    /\ nevents < MaxEvents
    /\ parsing = "regxml"
    /\ Len(opened) > 1
    /\ LET name == opened[Len(opened)] IN
       \E callback_raises \in (IF name \in {"key", "value"} THEN BOOLEAN ELSE {FALSE}) :
           RegHandled(reg_end_element(regxml, name, callback_raises), "end", name, <<>>,
                      SubSeq(opened, 1, Len(opened) - 1))
    /\ UNCHANGED dbvars

NextReg == RegStartElement \/ RegCharData \/ RegEndElement

(* The elements expat has open *)
OpenElements == IF parsing = "regxml" THEN opened ELSE reader.tagstack

(* Mutant: expat passes every end tag to the handler *)
expat_end_tag_NoCheck(elements, name) == ""

(* xmlparse: the error ParseFile raises at an end tag, "" if none *)
expat_end_tag(elements, name) ==
    IF name # elements[Len(elements)] THEN "ExpatError" ELSE ""

(* The stream holds an end tag that does not name the innermost open       *)
(* element: ParseFile raises and calls no handler                          *)
MismatchedEnd ==
    /\ raised = ""
    /\ nevents < MaxEvents
    /\ parsing # ""
    /\ Len(OpenElements) > 1
    /\ \E name \in CloseNames \ {OpenElements[Len(OpenElements)]} :
           IF expat_end_tag(OpenElements, name) # ""
           THEN /\ raised' = expat_end_tag(OpenElements, name)
                /\ nevents' = nevents + 1
                /\ event' = [kind |-> "end", name |-> name, attrs |-> <<>>]
                /\ UNCHANGED <<reader, nobjects, callbacks, closes, parsing, regvars,
                               inside, context>>
           ELSE IF parsing = "regxml"
           THEN RegHandled(reg_end_element(regxml, name, FALSE), "end", name, <<>>,
                           SubSeq(opened, 1, Len(opened) - 1))
           ELSE /\ Handled(end_element(reader, name, FALSE), "end", name, <<>>)
                /\ UNCHANGED <<nobjects, parsing, regvars>>
    /\ UNCHANGED dbvars

NextParse == NextReader \/ NextReg \/ MismatchedEnd

(* Two Times are made and compared with each operator *)
CompareTimes ==
    \E a \in TimeInputs, b \in TimeInputs, utcoffset \in LocalOffsets :
        /\ op' = "compare"
        /\ arg' = <<a, b>>
        /\ ret' = [tag |-> "Compare", d |-> <<compare(dftime(a), dftime(b), utcoffset)>>]
        /\ err' = NoError
        /\ pre' = db
        /\ UNCHANGED <<db, sectorsize>>
        /\ UNCHANGED othervars

(* An extentdb is made for a sector size and asked for the run of a sector *)
(* and for the sectors that hold a number of bytes                         *)
Construct ==
    \E given \in SectorSizes, n \in Sectors, count \in {1, 2}, c \in ByteCounts :
        LET e == extentdb(given) IN
        /\ op' = "extentdb"
        /\ arg' = <<given, n, count, c>>
        /\ ret' = [tag |-> "Conversions",
                   d |-> <<[sectorsize |-> e.sectorsize,
                            run_for_sector |-> run_for_sector(e.sectorsize, n, count),
                            sectors_for_bytes |-> sectors_for_bytes(e.sectorsize, c)]>>]
        /\ err' = NoError
        /\ pre' = db
        /\ UNCHANGED <<db, sectorsize>>
        /\ UNCHANGED othervars

NextFn == SectorsForRun \/ CombineRuns \/ CompareTimes \/ Construct

(* extentdb.add as two callers that share the database run it: the check  *)
(* v = self.intersects(extent) with the raise, and self.db.append(extent), *)
(* are separate steps, and steps of the callers may alternate              *)
Busy(c) == \E o \in Callers \ {c} : threads[o].pc = "checked"

AddCheck(c) ==
    /\ threads[c].pc = "idle"
    /\ Len(db) + Cardinality({o \in Callers : threads[o].pc = "checked"}) < MaxDb
    /\ \E e \in Extents :
           /\ err' = add_check(db, e, 0)
           /\ threads' = IF add_check(db, e, 0) = NoError
                         THEN [threads EXCEPT ![c] = [pc |-> "checked", extent |-> e]]
                         ELSE threads
           /\ arg' = <<e>>
    /\ op' = "add"
    /\ ret' = RNone
    /\ pre' = db
    /\ interleaved' = (interleaved \/ Busy(c))
    /\ UNCHANGED <<db, sectorsize>>
    /\ UNCHANGED rdvars

AddAppend(c) ==
    /\ threads[c].pc = "checked"
    /\ db' = Append(db, threads[c].extent)
    /\ threads' = [threads EXCEPT ![c] = [pc |-> "idle", extent |-> byte_run(0, 0)]]
    /\ op' = "add"
    /\ arg' = <<threads[c].extent>>
    /\ err' = NoError
    /\ ret' = RNone
    /\ pre' = db
    /\ interleaved' = (interleaved \/ Busy(c))
    /\ UNCHANGED sectorsize
    /\ UNCHANGED rdvars

NextThreads == \E c \in Callers : AddCheck(c) \/ AddAppend(c)

(* The extent database in use, no parse running *)
SpecDb == Init /\ [][NextDb]_vars

(* Two callers add to one extent database with no lock around add *)
SpecThreads == Init /\ [][NextThreads]_vars

(* Calls of the functions that leave the extent database alone *)
SpecFn == Init /\ [][NextFn]_vars

(* A parse of one stream, the extent database idle *)
SpecReader == Init /\ [][NextReader]_vars

(* A parse of one registry stream *)
SpecReg == Init /\ [][NextReg]_vars

(* A parse of one stream of either dialect, well-formed or not *)
SpecParse == Init /\ [][NextParse]_vars

----------------------------------------------------------------------------
(* What the claims about the extent database speak of, stated without the  *)
(* code: the bytes an extent covers and the half-open overlap of two       *)
(* extents.                                                                *)

Bytes(e) == e.img_offset .. (e.img_offset + e.len - 1)

Overlaps(a, b) == \E x \in Bytes(a) : x \in Bytes(b)

HalfOpenOverlap(c, d) ==
    c.img_offset < d.img_offset + d.len /\ d.img_offset < c.img_offset + c.len

(* Positions of the stored extents that overlap e *)
Colliding(dbs, e) == {i \in 1..Len(dbs) : Overlaps(dbs[i], e)}

MinOf(S) == CHOOSE x \in S : \A y \in S : x <= y

(* C1: after any sequence of add, add_runs and add_sectors calls, failed   *)
(* ones included, no two stored extents overlap: of every two stored       *)
(* extents, one ends at or before the start of the other.                  *)
C1_NoStoredOverlap ==
    \A i, j \in 1..Len(db) :
        i # j => \/ db[i].img_offset + db[i].len <= db[j].img_offset
                 \/ db[j].img_offset + db[j].len <= db[i].img_offset

(* A failed call has been made on a database holding adjacent extents *)
C1_Witness ==
    /\ Len(db) >= 2
    /\ err.kind = "collision"
    /\ \E i, j \in 1..Len(db) : db[i].img_offset + db[i].len = db[j].img_offset

(* C2: add(e) for an extent e that overlaps a stored extent fails with the *)
(* collision error naming the first stored extent that e overlaps, and     *)
(* leaves the database exactly as it was.                                  *)
C2_CollidingAddFails ==
    (op = "add" /\ Colliding(pre, arg[1]) # {}) =>
        /\ err.kind = "collision"
        /\ err.v = RExtent(pre[MinOf(Colliding(pre, arg[1]))])
        /\ db = pre

(* add (0,100), add (100,50), then add (90,20) fails naming (0,100) *)
C2_Witness ==
    /\ op = "add"
    /\ arg = <<byte_run(90, 20)>>
    /\ pre = <<byte_run(0, 100), byte_run(100, 50)>>
    /\ db = pre
    /\ err = CollisionError(RExtent(byte_run(0, 100)), 0)

(* C3, as claimed: add(e) of an extent of non-negative length that is      *)
(* disjoint from every stored extent succeeds and stores e, and            *)
(* intersects(e) of every stored extent e returns e.                       *)
C3_DisjointNonNegativeAddSucceeds ==
    /\ (op = "add" /\ arg[1].len >= 0 /\ Colliding(pre, arg[1]) = {}) =>
           (err = NoError /\ db = Append(pre, arg[1]))
    /\ \A i \in 1..Len(db) : intersects(db, db[i]) = RExtent(db[i])

(* C3, amended: the same for extents of positive length *)
C3_DisjointPositiveAddSucceeds ==
    /\ (op = "add" /\ arg[1].len > 0 /\ Colliding(pre, arg[1]) = {}) =>
           (err = NoError /\ db = Append(pre, arg[1]))
    /\ \A i \in 1..Len(db) : intersects(db, db[i]) = RExtent(db[i])

(* Three pairwise-disjoint extents have been added one by one, not in the  *)
(* order of their offsets                                                  *)
C3_Witness ==
    /\ op = "add"
    /\ err = NoError
    /\ Len(db) = 3
    /\ db[3] = arg[1]
    /\ db[1].img_offset > db[2].img_offset

(* C4: intersects(c) for a candidate of positive length returns the        *)
(* earliest-inserted stored extent in half-open overlap with c, and None   *)
(* exactly when there is none; touching at a boundary is no overlap.       *)
C4_IntersectsIsFirstHalfOpenOverlap ==
    (op = "intersects" /\ arg[1].len > 0) =>
        LET hits == {i \in 1..Len(db) : HalfOpenOverlap(arg[1], db[i])} IN
        /\ err = NoError
        /\ ret = (IF hits = {} THEN RNone ELSE RExtent(db[MinOf(hits)]))

(* A candidate that overlaps two stored extents gets the one inserted      *)
(* first, which is not the one lowest on disk                              *)
C4_Witness ==
    /\ op = "intersects"
    /\ db = <<byte_run(90, 20), byte_run(0, 20)>>
    /\ arg = <<byte_run(0, 100)>>
    /\ ret = RExtent(byte_run(90, 20))

(* C5: intersects of a zero-length candidate returns True in every         *)
(* database state, the empty one included; of a negative-length candidate  *)
(* it raises the invalid-extent error; neither changes the database.       *)
C5_ZeroAndNegativeLength ==
    op = "intersects" =>
        /\ db = pre
        /\ arg[1].len = 0 => (ret = RTrue /\ err = NoError)
        /\ arg[1].len < 0 => err = InvalidExtent(0)

C5_Witness ==
    /\ op = "intersects"
    /\ arg[1].len = 0
    /\ db = <<>>
    /\ ret = RTrue

(* C6: add_runs is fail-fast without rollback: when runs[k] is the first   *)
(* run whose add fails, the call fails at k and the database is the        *)
(* database before the call followed by runs[1..k-1].                      *)
Addable(dbs, e) == e.len > 0 /\ Colliding(dbs, e) = {}

FailingAt(dbs, runs) ==
    {k \in 1..Len(runs) : ~Addable(dbs \o SubSeq(runs, 1, k - 1), runs[k])}

C6_AddRunsFailFast ==
    op = "add_runs" =>
        LET f == FailingAt(pre, arg) IN
        IF f = {} THEN err = NoError /\ db = pre \o arg
        ELSE /\ err.kind # "none"
             /\ err.k = MinOf(f)
             /\ db = pre \o SubSeq(arg, 1, MinOf(f) - 1)

(* A call that stored its first run and failed at its second *)
C6_Witness ==
    /\ op = "add_runs"
    /\ Len(arg) = 2
    /\ err.kind = "collision"
    /\ err.k = 2
    /\ db = pre \o <<arg[1]>>

----------------------------------------------------------------------------
(* Claims about the file-object reader *)

(* C7: the callback is invoked exactly once for each fileobject close      *)
(* event, in the order of the close events and while that event is being   *)
(* handled; no other event invokes it.                                     *)
C7_OneCallbackPerClose ==
    /\ Len(callbacks) = Len(closes)
    /\ \A i \in 1..Len(callbacks) : callbacks[i].at = closes[i]

(* Two file objects, the second nested in the first, have been closed and  *)
(* another event has been handled since                                    *)
C7_Witness ==
    /\ Len(closes) = 2
    /\ closes[2] = closes[1] + 1
    /\ callbacks[2].arg = <<>>
    /\ nevents > closes[2]

(* C8: once the callback for a file object has returned, the reader holds  *)
(* no reference to that record: its fileobject slot is empty right after   *)
(* the close event, and the record it holds at any time is none of the     *)
(* records delivered so far.                                               *)
C8_NoDeliveredRecordRetained ==
    raised # "CallbackError" =>
        /\ Len(reader.fileobject) <= 1
        /\ (event.kind = "end" /\ event.name = "fileobject") => reader.fileobject = <<>>
        /\ \A i \in 1..Len(callbacks) :
               (callbacks[i].arg # <<>> /\ reader.fileobject # <<>>) =>
                   reader.fileobject[1].id # callbacks[i].arg[1].id

(* A second file object is being built after the first was delivered *)
C8_Witness ==
    /\ Len(callbacks) = 1
    /\ callbacks[1].arg # <<>>
    /\ reader.fileobject # <<>>
    /\ reader.fileobject[1].byte_runs # <<>>
    /\ raised = ""

(* The element that encloses the element now closing *)
Enclosing(rd) == rd.tagstack[Len(rd.tagstack) - 1]

LastRun(fo) == fo.byte_runs[Len(fo.byte_runs)]

(* C9: when a hashdigest closes inside a file object, its text goes under  *)
(* the lower-cased algorithm into the hash map of the most recent byte run *)
(* if the enclosing element is a run (either spelling), and into the file  *)
(* object's hash map if the enclosing element is the file object; it       *)
(* changes no other hash map.                                              *)
C9_DigestGoesToEnclosingElement ==
    [][(/\ event'.kind = "end" /\ event'.name = "hashdigest"
        /\ reader.fileobject # <<>>
        /\ Enclosing(reader) \in {"run", "byte_run", "fileobject"}) =>
          LET fo == reader.fileobject[1]
              fo2 == reader'.fileobject[1]
              alg == lower(reader.hashdigest_type) IN
          /\ raised' = ""
          /\ reader'.fileobject # <<>>
          /\ IF Enclosing(reader) = "fileobject"
             THEN /\ fo2.hashdigest = Put(fo.hashdigest, alg, reader.cdata)
                  /\ fo2.byte_runs = fo.byte_runs
             ELSE /\ fo2.hashdigest = fo.hashdigest
                  /\ fo.byte_runs # <<>>
                  /\ fo2.byte_runs =
                        [fo.byte_runs EXCEPT ![Len(fo.byte_runs)].hashdigest =
                            Put(@, alg, reader.cdata)]]_vars

(* The attributes of a run element with the legacy name bytes read as len *)
Renamed(attrs) ==
    [k \in ((DOMAIN attrs) \ {"bytes"}) \cup {"len"} |->
        IF k = "len" /\ "bytes" \in DOMAIN attrs THEN attrs["bytes"] ELSE attrs[k]]

(* C10: a run element given bytes=N yields the ByteRun that the same       *)
(* element given len=N yields: its len is N.                               *)
C10_BytesIsAliasOfLen ==
    (/\ event.kind = "start" /\ event.name \in {"run", "byte_run"}
     /\ reader.fileobject # <<>>
     /\ "bytes" \in DOMAIN event.attrs) =>
        /\ LastRun(reader.fileobject[1]) =
               decode_sax_attributes(new_byte_run, Renamed(event.attrs))
        /\ LastRun(reader.fileobject[1]).attr["len"] = PyInt(int(event.attrs["bytes"]))

(* The spelling byte_run of a run element, and a reader whose open         *)
(* elements are spelled that way                                           *)
Respelled(name) == IF name = "run" THEN "byte_run" ELSE name

RespelledReader(rd) ==
    [rd EXCEPT !.tagstack = [i \in 1..Len(rd.tagstack) |-> Respelled(rd.tagstack[i])]]

(* What the handler of event ev yields on reader rd *)
HandlerResult(rd, ev, id, callback_raises) ==
    CASE ev.kind = "start" -> start_element(rd, ev.name, ev.attrs, id)
      [] ev.kind = "end" -> end_element(rd, ev.name, callback_raises)
      [] OTHER -> Done(rd)

(* The byte runs (fields and hash maps) and the hash map of a file object  *)
(* slot, which holds <<>> or <<object>>                                    *)
RunsAndDigests(slot) ==
    [i \in 1..Len(slot) |->
        [byte_runs |-> slot[i].byte_runs, hashdigest |-> slot[i].hashdigest]]

(* C11: the spellings run and byte_run parse identically: an event handled *)
(* inside a file object leaves the byte runs of the file object, their     *)
(* hash maps and the file object's hash map as the same event does on the  *)
(* stream that spells every run element byte_run, delivers a record with   *)
(* the same byte runs and hash maps, and fails alike.                      *)
C11_SpellingsParseIdentically ==
    [][(event'.kind \in {"start", "end"} /\ reader.fileobject # <<>>) =>
          LET ev == [event' EXCEPT !.name = Respelled(@)]
              r == HandlerResult(RespelledReader(reader), ev, nobjects',
                                 raised' = "CallbackError") IN
          /\ r.exc = raised'
          /\ RunsAndDigests(r.rd.fileobject) = RunsAndDigests(reader'.fileobject)
          /\ [i \in 1..Len(r.calls) |-> RunsAndDigests(r.calls[i])] =
                 [i \in 1..(Len(callbacks') - Len(callbacks)) |->
                     RunsAndDigests(callbacks'[Len(callbacks) + i].arg)]]_vars

(* A run element is open, or has just closed, and no file object is open *)
RunOutsideFileObject ==
    /\ reader.fileobject = <<>>
    /\ \/ \E i \in 1..Len(reader.tagstack) : reader.tagstack[i] \in {"run", "byte_run"}
       \/ event.kind = "end" /\ event.name \in {"run", "byte_run"}

(* C12: a run element (either spelling) met while no file object is open   *)
(* is ignored with all that is nested in it: its events and those of its   *)
(* children raise no error, append no byte run and invoke no callback.     *)
C12_RunOutsideFileObjectIgnored ==
    RunOutsideFileObject =>
        /\ raised = ""
        /\ \A i \in 1..Len(callbacks) : callbacks[i].at # nevents

----------------------------------------------------------------------------
(* Claims about the registry reader and about streams of both dialects *)

(* C13: within one hive, completing a cell (key or value) whose full path  *)
(* is that of a cell already completed in the hive fails with the          *)
(* duplicate-path error and does not invoke the callback: the cells        *)
(* delivered for one hive have pairwise different full paths, and the      *)
(* close of a cell with the path of a delivered cell raises ValueError.    *)
C13_DuplicatePathFails ==
    /\ \A i, j \in 1..Len(callbacks) :
           (/\ i < j
            /\ callbacks[i].arg.registry_handle # 0
            /\ callbacks[i].arg.registry_handle = callbacks[j].arg.registry_handle)
               => callbacks[i].arg.full_path # callbacks[j].arg.full_path
    /\ (/\ event.kind = "end" /\ event.name \in {"key", "value"}
        /\ raised = "ValueError") =>
           \A i \in 1..Len(callbacks) : callbacks[i].at # nevents

(* C14: every key delivered to the callback satisfies the path invariant:  *)
(* without a parent its full path is a backslash and its name, with one    *)
(* it is the parent's full path, a backslash and its name; and when a key  *)
(* is made its parent is an object made before it whose full path is set.  *)
C14_DeliveredKeyPath ==
    /\ \A i \in 1..Len(callbacks) :
           LET o == callbacks[i].arg IN
           o.cell = "key" =>
               /\ o.name # <<>>
               /\ o.parent_key = 0 => o.full_path = <<"\\" \o o.name[1]>>
               /\ o.parent_key # 0 =>
                      /\ regxml.heap[o.parent_key].full_path # <<>>
                      /\ o.full_path =
                             <<regxml.heap[o.parent_key].full_path[1] \o "\\" \o o.name[1]>>
    /\ (event.kind = "start" /\ event.name = "key" /\ raised = "") =>
           LET o == regxml.heap[Top(regxml)] IN
           o.parent_key # 0 =>
               /\ o.parent_key < Top(regxml)
               /\ regxml.heap[o.parent_key].full_path # <<>>

(* A key two levels below the root key has been delivered *)
C14_Witness ==
    \E i \in 1..Len(callbacks) :
        /\ callbacks[i].arg.cell = "key"
        /\ callbacks[i].arg.full_path = <<"\\A\\__DFXML_NONCE_0\\A">>

C16_MismatchedCloseIsFatal ==
    [][/\ raised = ""
       /\ (event'.kind = "end" /\ event'.name # OpenElements[Len(OpenElements)]) =>
              (raised' # "" /\ callbacks' = callbacks)]_vars

(* A registry stream has ended at a stray end tag after a record was       *)
(* delivered, a key and a value still open                                 *)
C16_Witness ==
    /\ parsing = "regxml"
    /\ raised = "ExpatError"
    /\ event.name = "key"
    /\ opened[Len(opened)] = "value"
    /\ Len(callbacks) = 1

(* C17: when the callback fails on the k-th record it is handed, the       *)
(* failure ends the parse: the failing invocation is the last one, it is   *)
(* made once, and no event is handled after it.                            *)
C17_CallbackFailureEndsParse ==
    [][/\ raised # "CallbackError"
       /\ raised' = "CallbackError" =>
              /\ Len(callbacks') = Len(callbacks) + 1
              /\ callbacks'[Len(callbacks')].at = nevents']_vars

(* The callback has failed on the second file object *)
C17_Witness ==
    /\ raised = "CallbackError"
    /\ Len(callbacks) = 2
    /\ callbacks[2].arg # <<>>
    /\ callbacks[2].at = nevents

----------------------------------------------------------------------------
(* Claims about sectors and about combine_runs *)

(* The bytes of the runs run_for_sector gives for the sectors s *)
SectorBytes(s) ==
    UNION {Bytes(run_for_sector(sectorsize, s[i], 1)) : i \in 1..Len(s)}

(* C18: sector round trip: for an extent e of non-negative offset and      *)
(* positive length, aligned to sectors or not, the runs run_for_sector(s)  *)
(* over the s in sectors_for_run(e) cover exactly the bytes of e.          *)
C18_SectorRoundTrip ==
    (op = "sectors_for_run" /\ arg[1].img_offset >= 0 /\ arg[1].len > 0) =>
        /\ err = NoError
        /\ ret.tag = "Sectors"
        /\ SectorBytes(ret.d) = Bytes(arg[1])

(* The sectors that hold a byte of run and that no extent of dbs overlaps *)
UncoveredSectors(dbs, run) ==
    {s \in 0..((run.img_offset + run.len) \div sectorsize) :
        /\ Overlaps(run_for_sector(sectorsize, s, 1), run)
        /\ \A i \in 1..Len(dbs) : ~Overlaps(dbs[i], run_for_sector(sectorsize, s, 1))}

(* C19: sectors_not_in_db(run) returns, ascending and without duplicates,  *)
(* exactly the sectors of the run that no stored extent overlaps; every    *)
(* uncovered sector that holds a byte of the run is returned.              *)
C19_SectorsNotInDb ==
    (op = "sectors_not_in_db" /\ arg[1].img_offset >= 0 /\ arg[1].len > 0) =>
        /\ err = NoError
        /\ ret.tag = "Sectors"
        /\ \A i, j \in 1..Len(ret.d) : i < j => ret.d[i] < ret.d[j]
        /\ {ret.d[i] : i \in 1..Len(ret.d)} = UncoveredSectors(db, arg[1])
        /\ db = pre

(* C20: combine_runs is idempotent: combine_runs of its result is the      *)
(* result, with the same length and the same (img_offset, len) pairs in    *)
(* the same order.                                                         *)
C20_CombineRunsIdempotent ==
    op = "combine_runs" =>
        /\ Len(combine_runs(ret.d)) = Len(ret.d)
        /\ \A i \in 1..Len(ret.d) :
               /\ combine_runs(ret.d)[i].img_offset = ret.d[i].img_offset
               /\ combine_runs(ret.d)[i].len = ret.d[i].len

(* Three runs, each starting where the one before ends, were combined into *)
(* one                                                                     *)
C20_Witness ==
    /\ op = "combine_runs"
    /\ Len(arg) = 3
    /\ ret.d = <<byte_run(0, 200)>>

(* Runs in ascending order of image offset, each of positive length *)
AscendingPositive(runs) ==
    /\ \A i \in 1..Len(runs) : runs[i].len > 0
    /\ \A i \in 1..(Len(runs) - 1) : runs[i].img_offset <= runs[i + 1].img_offset

CoveredBytes(runs) == UNION {Bytes(runs[i]) : i \in 1..Len(runs)}

(* The positions of runs that do not start where the run before them ends *)
EntryStarts(runs) ==
    {i \in 1..Len(runs) :
        i = 1 \/ runs[i - 1].img_offset + runs[i - 1].len # runs[i].img_offset}

(* C21: for positive-length runs in ascending order of image offset,       *)
(* combine_runs returns runs in ascending order of image offset that cover *)
(* the bytes the input covers; a run is merged into its predecessor        *)
(* exactly when the predecessor ends where the run starts, and is kept as  *)
(* an entry of its own, in its place, otherwise.                           *)
C21_CombineRunsMergesAdjacent ==
    (op = "combine_runs" /\ AscendingPositive(arg)) =>
        LET starts == EntryStarts(arg)
            entry(k) == CHOOSE i \in starts : Cardinality({j \in starts : j <= i}) = k
            last(k) == IF k = Cardinality(starts) THEN Len(arg) ELSE entry(k + 1) - 1 IN
        /\ AscendingPositive(ret.d)
        /\ CoveredBytes(ret.d) = CoveredBytes(arg)
        /\ Len(ret.d) = Cardinality(starts)
        /\ \A k \in 1..Len(ret.d) :
               /\ ret.d[k].img_offset = arg[entry(k)].img_offset
               /\ ret.d[k].img_offset + ret.d[k].len =
                      arg[last(k)].img_offset + arg[last(k)].len

(* Two adjacent runs were merged and a third, which starts inside the      *)
(* merged run, was kept after it                                           *)
C21_Witness ==
    /\ op = "combine_runs"
    /\ arg = <<byte_run(0, 100), byte_run(100, 50), byte_run(100, 50)>>
    /\ ret.d = <<byte_run(0, 150), byte_run(100, 50)>>

(* The comparison just made, and the values its two Times were made from *)
Compared == op = "compare"
Outcome == ret.d[1]

(* C22: two Times both made from None are not equal: the equality          *)
(* comparison of a null Time with another null Time yields false           *)
C22_NullNeverEqualsNull ==
    (Compared /\ arg[1] = PyNone /\ arg[2] = PyNone) => Outcome.eq = "False"

(* The instant a value denotes as <<seconds since the epoch, ten           *)
(* thousandths of a second>>: a number is its own seconds, a text is its   *)
(* date and time of day moved by its offset from UTC, Z being none         *)
OffsetOf(s) ==
    LET k == CHOOSE j \in 20..Len(s) : s[j] \in {"Z", "+", "-"}
        h == DigitsValue(SubSeq(s, k + 1, k + 2))
        mi == DigitsValue(SubSeq(s, k + 3, k + 4)) IN
    IF s[k] = "Z" THEN 0
    ELSE IF s[k] = "+" THEN h * 3600 + mi * 60
    ELSE 0 - (h * 3600 + mi * 60)

Instant(val) ==
    IF val.t = "int" THEN <<val.i, 0>>
    ELSE <<mktime(strptime(SubSeq(val.s, 1, 19)), OffsetOf(val.s)),
           IF val.s[20] = "." THEN DigitsValue(SubSeq(val.s, 21, 24)) ELSE 0>>

Before(x, y) == x[1] < y[1] \/ (x[1] = y[1] /\ x[2] < y[2])

(* C23: for two Times a and b, neither made from None, each of a < b,      *)
(* a <= b, a > b and a >= b yields what the same comparison of their       *)
(* epoch values yields, and exactly one of a < b, a == b, a > b holds      *)
C23_OrderConsistentWithEpoch ==
    (Compared /\ arg[1] # PyNone /\ arg[2] # PyNone) =>
        LET x == Instant(arg[1])
            y == Instant(arg[2]) IN
        /\ Outcome.lt = Bool(Before(x, y))
        /\ Outcome.le = Bool(~Before(y, x))
        /\ Outcome.gt = Bool(Before(y, x))
        /\ Outcome.ge = Bool(~Before(x, y))
        /\ Cardinality({f \in {"lt", "eq", "gt"} : Outcome[f] = "True"}) = 1

(* C24: for two Times made from ISO 8601 texts, a == b holds exactly when  *)
(* the texts denote the same instant and a > b exactly when the instant of *)
(* a is the later one, offsets from UTC and fractions of a second counted  *)
C24_TextsCompareAsInstants ==
    (Compared /\ arg[1].t = "str" /\ arg[2].t = "str") =>
        /\ Outcome.eq = Bool(Instant(arg[1]) = Instant(arg[2]))
        /\ Outcome.gt = Bool(Before(Instant(arg[2]), Instant(arg[1])))

(* C25: the close of a timestamp element never ends the parse, whatever    *)
(* its text: in both dialects the handler of the close of an mtime element *)
(* returns, so that the record around it is completed and delivered        *)
C25_BadTimestampNotFatal ==
    (event.kind = "end" /\ event.name = "mtime") => raised = ""

(* C26: in the file-object dialect the open of an element whose attributes *)
(* are made integers (a run in a file object, a volume with its offset)    *)
(* raises nothing whatever their values, and a run attribute whose value   *)
(* is no integer is kept as its text                                       *)
C26_CoercionFailureKeepsText ==
    (parsing = "dfxml" /\ event.kind = "start"
        /\ event.name \in {"volume", "run", "byte_run"}) =>
        /\ raised = ""
        /\ (event.name # "volume" /\ reader.fileobject # <<>>) =>
               LET runs == reader.fileobject[1].byte_runs IN
               \A k \in DOMAIN event.attrs :
                   ~IsIntLiteral(event.attrs[k]) =>
                       runs[Len(runs)].attr[k] = PyStr(event.attrs[k])

(* C27: when a leaf other than a run and a hashdigest closes while a file  *)
(* object is open, no error is raised and the tag map of the file object   *)
(* holds an entry under the name of the leaf                               *)
C27_LeafTextStoredUnderTag ==
    (parsing = "dfxml" /\ event.kind = "end"
        /\ event.name \notin {"run", "byte_run", "byte_runs", "hashdigest", "fileobject",
                              "volume"}
        /\ reader.fileobject # <<>>) =>
        /\ raised = ""
        /\ event.name \in DOMAIN reader.fileobject[1].tags

(* The file object the callback was given at the event just handled, <<>>  *)
(* if it was given none                                                    *)
DeliveredNow ==
    IF parsing = "dfxml" /\ event.kind = "end" /\ event.name = "fileobject"
       /\ callbacks # <<>> /\ callbacks[Len(callbacks)].at = nevents
    THEN callbacks[Len(callbacks)].arg
    ELSE <<>>

(* The extents of byte runs whose img_offset and len are integers *)
ExtentsOf(runs) ==
    [i \in 1..Len(runs) |-> byte_run(runs[i].attr["img_offset"].i, runs[i].attr["len"].i)]

Run_0_512 == [k \in {"img_offset", "len"} |-> IF k = "img_offset" THEN <<"0">> ELSE <<"5", "1", "2">>]
Run_512_512 == [k \in {"img_offset", "len"} |-> <<"5", "1", "2">>]

(* C28: the byte runs of a file object given to the callback are the run   *)
(* elements opened inside its fileobject element, one byte run with the    *)
(* attributes of each, in the order of the stream; for the runs (0, 512) then (512, 512) they  *)
(* are two, in that order, and combine_runs makes them the run (0, 1024)   *)
C28_RunsInDocumentOrder ==
    DeliveredNow # <<>> =>
        LET runs == DeliveredNow[1].byte_runs IN
        /\ Len(runs) = Len(inside.closed)
        /\ \A i \in 1..Len(runs) :
               runs[i].attr = decode_sax_attributes(new_byte_run, inside.closed[i]).attr
        /\ inside.closed = <<Run_0_512, Run_512_512>> =>
               /\ ExtentsOf(runs) = <<byte_run(0, 512), byte_run(512, 512)>>
               /\ combine_runs(ExtentsOf(runs)) = <<byte_run(0, 1024)>>

(* A file object with the runs (0, 512) and (512, 512) has been delivered *)
C28_Witness ==
    /\ DeliveredNow # <<>>
    /\ inside.closed = <<Run_0_512, Run_512_512>>
    /\ Len(DeliveredNow[1].byte_runs) = 2

(* C29: the open of a key element inside a hive raises nothing, whatever   *)
(* its root attribute, and puts on the object stack a new key whose parent *)
(* is the key that was on top of it, or none if no key was open            *)
C29_KeyOpenPushesChild ==
    (parsing = "regxml" /\ event.kind = "start" /\ event.name = "key"
        /\ \E i \in 1..Len(opened) : opened[i] = "hive") =>
        /\ raised = ""
        /\ LET st == regxml.objectstack
               o == regxml.heap[st[Len(st)]]
               below == IF Len(st) > 1 THEN st[Len(st) - 1] ELSE 0 IN
           /\ o.cell = "key"
           /\ o.parent_key = (IF below # 0 /\ regxml.heap[below].cell = "key"
                              THEN below ELSE 0)

(* The callback invocations that delivered a key, by position, and the     *)
(* objects made below the object at position k of the heap                 *)
KeyCalls == {i \in 1..Len(callbacks) : callbacks[i].arg.cell = "key"}
NestedIn(k) ==
    {c \in 1..Len(regxml.heap) :
        regxml.heap[c].cell \in {"key", "value"} /\ regxml.heap[c].parent_key = k}

(* C30: in a registry stream a key whose close is handled is off the       *)
(* object stack, is in the object index of its hive under its full path    *)
(* and is delivered at that event, once, after the keys and values nested  *)
(* in it; no hive is delivered; and the object index of a hive maps the    *)
(* full paths of the keys delivered so far, and nothing else, to them      *)
C30_KeyCloseRegistersAndDelivers ==
    /\ \A i \in 1..Len(callbacks) : callbacks[i].arg.cell # "hive"
    /\ \A i, j \in KeyCalls : i # j => callbacks[i].arg # callbacks[j].arg
    /\ \A h \in 1..Len(regxml.heap) :
           regxml.heap[h].cell = "hive" =>
               LET index == regxml.heap[h].object_index IN
               /\ DOMAIN index =
                      {callbacks[i].arg.full_path[1] :
                          i \in {j \in KeyCalls : callbacks[j].arg.registry_handle = h}}
               /\ \A i \in KeyCalls :
                      callbacks[i].arg.registry_handle = h =>
                          regxml.heap[index[callbacks[i].arg.full_path[1]]] = callbacks[i].arg
    /\ \A j \in KeyCalls :
           LET key == callbacks[j].arg
               k == regxml.heap[key.registry_handle].object_index[key.full_path[1]] IN
           /\ \A c \in NestedIn(k) :
                  \E i \in 1..(j - 1) : callbacks[i].arg = regxml.heap[c]
           /\ Cardinality(NestedIn(k)) =
                  Cardinality({i \in 1..(j - 1) : callbacks[i].arg.parent_key = k})
           /\ \A s \in 1..Len(regxml.objectstack) : regxml.objectstack[s] # k
    /\ (parsing = "regxml" /\ event.kind = "end" /\ event.name = "key"
            /\ raised \in {"", "CallbackError"}) =>
           /\ Cardinality({i \in 1..Len(callbacks) : callbacks[i].at = nevents}) = 1
           /\ Len(callbacks) \in KeyCalls
           /\ callbacks[Len(callbacks)].at = nevents

(* A key has been delivered after a key and a value nested in it *)
C30_Witness ==
    /\ event.kind = "end" /\ event.name = "key" /\ raised = ""
    /\ Len(callbacks) = 3
    /\ callbacks[1].arg.cell = "key" /\ callbacks[2].arg.cell = "value"
    /\ callbacks[3].arg.cell = "key" /\ callbacks[3].arg.parent_key = 0
    /\ callbacks[1].arg.parent_key = callbacks[2].arg.parent_key
    /\ callbacks[1].arg.parent_key # 0

(* The volume element that was open when fileobject element f opened *)
OpenAt(f) == (CHOOSE p \in {context.at[i] : i \in 1..Len(context.at)} : p[1] = f)[2]

(* C31: a file object given to the callback is linked to the volume whose  *)
(* element was open when the fileobject element opened, to none if none    *)
(* was; the reader holds a volume exactly while a volume element is open,  *)
(* so a file object that opens after a volume closed is not linked to it   *)
C31_FileObjectLinkedToOpenVolume ==
    parsing = "dfxml" =>
        /\ \A i \in 1..Len(callbacks) :
               callbacks[i].arg # <<>> =>
                   callbacks[i].arg[1].volume = OpenAt(callbacks[i].arg[1].id)
        /\ reader.fileobject # <<>> =>
               reader.fileobject[1].volume = OpenAt(reader.fileobject[1].id)
        /\ raised = "" =>
               /\ (reader.volumeobject = <<>>) = (context.open = <<>>)
               /\ reader.volumeobject # <<>> =>
                      reader.volumeobject[1].id = context.open[Len(context.open)]

(* A file object in a volume and one that opened after the volume closed   *)
(* have been delivered                                                     *)
C31_Witness ==
    /\ Len(callbacks) = 2
    /\ callbacks[1].arg # <<>> /\ callbacks[2].arg # <<>>
    /\ callbacks[1].arg[1].volume # 0
    /\ callbacks[2].arg[1].volume = 0
    /\ context.open = <<>>

(* C32: the byte run made at the open of a byte_run element under a key or *)
(* value of a registry stream has the image offset, file offset and length *)
(* that decode_sax_attributes gives a run of the file-object dialect with  *)
(* the same attributes, integers where the values are integer literals     *)
C32_RegistryRunDecodedAlike ==
    (parsing = "regxml" /\ event.kind = "start" /\ event.name = "byte_run"
        /\ raised = "") =>
        LET runs == regxml.heap[Top(regxml)].byte_runs
            b == decode_sax_attributes(new_byte_run, event.attrs) IN
        \A k \in {"img_offset", "file_offset", "len"} :
            runs[Len(runs)].attr[k] = b.attr[k]

(* C33: a successful add(e) leaves the stored extents as they were and in  *)
(* their positions and puts e, as an entry of its own, after them; under   *)
(* every operation the database before the call is the beginning of the    *)
(* database after it, so the number of stored extents never goes down      *)
C33_AppendOnly ==
    /\ (op = "add" /\ err = NoError) =>
           /\ db = Append(pre, arg[1])
           /\ Len(db) = Len(pre) + 1
    /\ Len(db) >= Len(pre)
    /\ SubSeq(db, 1, Len(pre)) = pre

(* An extent that starts where the last stored extent ends has been added *)
C33_Witness ==
    /\ op = "add" /\ err = NoError
    /\ pre # <<>>
    /\ pre[Len(pre)].img_offset + pre[Len(pre)].len = arg[1].img_offset
    /\ Len(db) = Len(pre) + 1

(* Two stored extents overlap *)
StoredOverlap ==
    \E i, j \in 1..Len(db) :
        /\ i # j
        /\ db[i].img_offset + db[i].len > db[j].img_offset
        /\ db[j].img_offset + db[j].len > db[i].img_offset

(* C34: as long as every add of the callers that share the database ran    *)
(* its check and its append with no step of another caller in between, no  *)
(* two stored extents overlap; with such a step they can (the witness)     *)
C34_OverlapOnlyWhenInterleaved ==
    StoredOverlap => interleaved

(* The adds of two callers alternated between check and append and the     *)
(* database stores two overlapping extents                                 *)
C34_Witness ==
    /\ interleaved
    /\ StoredOverlap
    /\ \A c \in Callers : threads[c].pc = "idle"

(* C35: an extentdb made for the sector size s converts with s:            *)
(* run_for_sector(n, count) starts at n*s and is count*s long,             *)
(* sectors_for_bytes(c) is c/s rounded up; and the sector size of a        *)
(* database in use is the one it was made with                             *)
C35_SectorSizeAsConstructed ==
    /\ op = "extentdb" =>
           LET s == arg[1]
               made == ret.d[1] IN
           /\ made.sectorsize = s
           /\ made.run_for_sector = byte_run(arg[2] * s, arg[3] * s)
           /\ made.sectors_for_bytes * s >= arg[4]
           /\ (made.sectors_for_bytes - 1) * s < arg[4]
    /\ sectorsize = extentdb(512).sectorsize

(* The members of a set of numbers as an ascending sequence *)
RECURSIVE Ascending(_)
Ascending(S) ==
    IF S = {} THEN <<>>
    ELSE LET lo == CHOOSE x \in S : \A y \in S : x <= y IN
         <<lo>> \o Ascending(S \ {lo})

(* C36: when sectors_not_in_db(run) has returned sectors, add_sectors of   *)
(* any of them, in ascending order, raises nothing, and sectors_not_in_db  *)
(* of the same run on the database after it returns none of those added    *)
C36_ResidualSectorsAddable ==
    (op = "sectors_not_in_db" /\ ret.tag = "Sectors") =>
        \A T \in SUBSET {ret.d[i] : i \in 1..Len(ret.d)} :
            LET r == add_sectors(db, sectorsize, Ascending(T))
                again == sectors_not_in_db(r.db, sectorsize, arg[1], 2) IN
            /\ r.err = NoError
            /\ again.ok
            /\ \A i \in 1..Len(again.sectors) : again.sectors[i] \notin T

(* One sector of a run of two sectors was returned, the other one being    *)
(* covered by a stored extent                                              *)
C36_Witness ==
    /\ op = "sectors_not_in_db" /\ ret.tag = "Sectors"
    /\ Len(ret.d) = 1
    /\ db # <<>>
    /\ Len(sectors_for_run(sectorsize, arg[1], 2).sectors) = 2

Queries == {"intersects", "intersects_runs", "intersects_sector", "sectors_for_run",
            "run_for_sector", "runs_for_sectors", "sectors_not_in_db"}

(* C37: a query (intersects, intersects_runs, intersects_sector,           *)
(* sectors_for_run, run_for_sector, runs_for_sectors, sectors_not_in_db)   *)
(* leaves the stored extents, their order and the sector size as they      *)
(* were, whether it returns or raises                                      *)
C37_QueriesLeaveDatabase ==
    op \in Queries => (db = pre /\ sectorsize = extentdb(512).sectorsize)

(* A query has raised on a database that stores extents *)
C37_Witness ==
    /\ op \in Queries
    /\ err # NoError
    /\ Len(db) >= 2
    /\ db = pre

(* The number of elements of the given names among the open elements *)
OpenCount(names) == Cardinality({i \in 1..Len(opened) : opened[i] \in names})

(* C38: in a well-nested stream of the file-object dialect, also with a    *)
(* fileobject element inside a fileobject element, every callback receives *)
(* a file object, never an empty slot, no file object is delivered twice,  *)
(* and an mtime that closes inside a fileobject element is stored in the   *)
(* file object the reader has open                                         *)
C38_NestedFileObjectsDelivered ==
    /\ \A i \in 1..Len(callbacks) : callbacks[i].arg # <<>>
    /\ \A i, j \in 1..Len(callbacks) :
           (i # j /\ callbacks[i].arg # <<>> /\ callbacks[j].arg # <<>>) =>
               callbacks[i].arg[1].id # callbacks[j].arg[1].id
    /\ (raised = "" /\ event.kind = "end" /\ event.name = "mtime"
           /\ \E i \in 1..Len(reader.tagstack) : reader.tagstack[i] = "fileobject") =>
           /\ reader.fileobject # <<>>
           /\ "mtime" \in DOMAIN reader.fileobject[1].tags

(* C39: while a registry stream is read without error the object stack is  *)
(* as deep as the number of hive, key and value elements open, and it is   *)
(* empty when the outermost element has closed                             *)
C39_ObjectStackMirrorsOpenElements ==
    (parsing = "regxml" /\ raised = "") =>
        Len(regxml.objectstack) = OpenCount({"hive", "key", "value"})
====
